---- MODULE Spec2Model ----
(***************************************************************************)
(* Model of the go-hdb protocol Reader and Writer                          *)
(* (driver/internal/protocol/parts.go), of the driver metrics and of the   *)
(* integer field conversion.                                               *)
(*                                                                         *)
(* Spec        the Reader: IterateParts / SkipParts over a stream of       *)
(*             messages, with the handler callback as the environment.     *)
(* SpecWriter  the Writer: a sequence of Write calls on one Writer.        *)
(* SpecHistogram, SpecMetrics, SpecStats, SpecFair   the histogram and the *)
(*             metrics collectors (without and with callers of stats(),    *)
(*             and under fair scheduling).                                 *)
(* SpecConvert   convertField on integer columns.                          *)
(* SpecRoundTrip a Reader on the bytes one Write has written.              *)
(***************************************************************************)
EXTENDS Integers, Naturals, Sequences, FiniteSets, TLC

(***************************************************************************)
(* Bounds of the model.                                                    *)
(***************************************************************************)
\* segments of a message
MaxSegm == 2
\* messages (IterateParts calls) of a run of the Reader
MaxMsgs == 2
\* parts (part headers decoded) of a run of the Reader
MaxParts == 2
\* faults of a run: I/O errors, decoder errors, over-reading decoders,
\* handler errors
MaxFaults == 1
MaxErrs == 2
MaxRows == 2

\* declared buffer lengths of the parts of a message read by the Reader
PartSizes == {5, 8}

(***************************************************************************)
(* Program constants.                                                      *)
(***************************************************************************)
padding == 8
segmentHeaderSize == 13
partHeaderSize == 16
RaExecutionFailed == -3

\* part kinds occurring in the modelled messages; PkUnknown stands for a kind
\* value the driver has no definition for
PkError == "PkError"
PkRowsAffected == "PkRowsAffected"
PkCommand == "PkCommand"
PkClientInfo == "PkClientInfo"
PkAuthentication == "PkAuthentication"
PkResultset == "PkResultset"
PkUnknown == "PkUnknown"

genPartTypeMap ==
    { PkError, "PkClientID", PkClientInfo, "PkTopologyInformation", PkCommand,
      PkRowsAffected, "PkStatementID", "PkResultsetID", "PkFetchSize",
      "PkReadLobRequest", "PkReadLobReply", "PkWriteLobReply",
      "PkWriteLobRequest", "PkClientContext", "PkConnectOptions",
      "PkTransactionFlags", "PkStatementContext", "PkDBConnectInfo" }

\* newGenPartReader(kind) /= nil
newGenPartReader(kind) ==
    IF kind = PkAuthentication THEN FALSE ELSE kind \in genPartTypeMap

\* padBytes with the test on the remainder dropped
padBytesNoTest(size) == padding - (size % padding)

padBytes(size) ==
    IF size % padding # 0 THEN padding - (size % padding) ELSE 0

(***************************************************************************)
(* Values.                                                                 *)
(***************************************************************************)
\* error values carry the number of the message (IterateParts call) that
\* produced them
NoError == [tag |-> "nil", msg |-> 0, errs |-> <<>>]
MkError(t, m) == [tag |-> t, msg |-> m, errs |-> <<>>]

NoPart == [present |-> FALSE]

RECURSIVE SeqsUpTo(_, _)
SeqsUpTo(S, n) ==
    IF n = 0 THEN { <<>> }
    ELSE LET shorter == SeqsUpTo(S, n - 1)
         IN  shorter \cup { Append(s, x) : s \in { t \in shorter : Len(t) = n - 1 }, x \in S }

RECURSIVE SumSeq(_)
SumSeq(s) == IF s = <<>> THEN 0 ELSE Head(s) + SumSeq(Tail(s))

(***************************************************************************)
(* encoding.Decoder: stream position (bytes consumed after the message     *)
(* header), per-part byte counter, sticky error.                           *)
(***************************************************************************)
NewDecoder == [pos |-> 0, cnt |-> 0, err |-> NoError]

ResetCnt(d) == [d EXCEPT !.cnt = 0]

\* a no-op once the sticky error is set
Skip(d, n) ==
    IF d.err # NoError THEN d ELSE [d EXCEPT !.pos = @ + n, !.cnt = @ + n]

ResetError(d) == [d EXCEPT !.err = NoError]

\* a header decode: reads size bytes, fails with the sticky error
DecodeHeader(d, size, ioFail, msg) ==
    IF d.err # NoError THEN d
    ELSE IF ioFail THEN [d EXCEPT !.err = MkError("ioErr", msg)]
    ELSE [d EXCEPT !.pos = @ + size, !.cnt = @ + size]

\* a part decoder that consumes c bytes and ends with outcome res:
\* "ok", "err" (an error that is not the decoder's sticky error) or
\* "sticky" (an I/O or transcoding error, sticky on the decoder)
DecodePart(d, c, res, msg) ==
    [d EXCEPT !.pos = @ + c, !.cnt = @ + c,
              !.err = IF res = "sticky" THEN MkError("decErr", msg) ELSE @]

PartError(d, res, msg) ==
    CASE res = "ok" -> NoError
      [] res = "err" -> MkError("partErr", msg)
      [] OTHER -> d.err

(***************************************************************************)
(* HdbErrors and RowsAffected parts.                                       *)
(***************************************************************************)
StmtNoUnset == -1
Levels == {"warning", "error"}

\* the error lists a decoded errors part can hold: every error starts with
\* its statement index unset
ErrLists ==
    { [i \in 1..Len(ls) |-> [level |-> ls[i], stmtNo |-> StmtNoUnset]] :
        ls \in SeqsUpTo(Levels, MaxErrs) }

RowLists == SeqsUpTo({RaExecutionFailed, 1}, MaxRows)

MkHdbErrors(errs, m) == [present |-> TRUE, type |-> "HdbErrors", errs |-> errs, msg |-> m]
MkRowsAffected(rows, ofs, m) ==
    [present |-> TRUE, type |-> "RowsAffected", rows |-> rows, Ofs |-> ofs, msg |-> m]
MkOtherPart(m) == [present |-> TRUE, type |-> "other", msg |-> m]

onlyWarnings(e) == \A i \in 1..Len(e.errs) : e.errs[i].level = "warning"

setStmtNo(errs, idx, no) ==
    IF idx >= 0 /\ idx < Len(errs) THEN [errs EXCEPT ![idx + 1].stmtNo = no] ELSE errs

(***************************************************************************)
(* Reader. A Reader value rd has the fields of the Go struct; rd.panicked  *)
(* is set when one of its methods panics.                                  *)
(***************************************************************************)
newReader(protTrace) ==
    [ protTrace |-> protTrace,
      dec |-> NewDecoder,
      mh |-> [varPartLength |-> 0, noOfSegm |-> 0],
      sh |-> [noOfParts |-> 0, functionCode |-> "FcNil"],
      ph |-> [partKind |-> PkUnknown, bufferLength |-> 0],
      readBytes |-> 0, numPart |-> 0, cntPart |-> 0,
      partCache |-> {},
      lastErrors |-> NoPart, lastRowsAffected |-> NoPart,
      err |-> NoError,
      panicked |-> FALSE ]

FunctionCode(rd) == rd.sh.functionCode

\* skipPadding without the panic on a negative tail
skipPaddingNoPanic(rd) ==
    IF rd.cntPart # rd.numPart
    THEN LET pad == padBytes(rd.ph.bufferLength)
         IN  [rd EXCEPT !.dec = Skip(@, pad), !.readBytes = @ + pad]
    ELSE LET pad == rd.mh.varPartLength - rd.readBytes
         IN  IF pad > 0
             THEN [rd EXCEPT !.dec = Skip(@, pad), !.readBytes = @ + pad]
             ELSE rd

\* skipPadding without the tail of the message after the final part
skipPaddingNoTail(rd) ==
    IF rd.cntPart # rd.numPart
    THEN LET pad == padBytes(rd.ph.bufferLength)
         IN  [rd EXCEPT !.dec = Skip(@, pad), !.readBytes = @ + pad]
    ELSE rd

\* skipPadding together with the caller's r.readBytes += r.skipPadding()
skipPadding(rd) ==
    IF rd.cntPart # rd.numPart
    THEN LET pad == padBytes(rd.ph.bufferLength)
         IN  [rd EXCEPT !.dec = Skip(@, pad), !.readBytes = @ + pad]
    ELSE LET pad == rd.mh.varPartLength - rd.readBytes
         IN  CASE pad < 0 -> [rd EXCEPT !.panicked = TRUE]
               [] pad > 0 -> [rd EXCEPT !.dec = Skip(@, pad), !.readBytes = @ + pad]
               [] OTHER -> rd

\* skipPart up to r.readBytes += int64(r.dec.Cnt())
skipPayload(rd) ==
    LET d == Skip(ResetCnt(rd.dec), rd.ph.bufferLength)
    IN  [rd EXCEPT !.dec = d, !.readBytes = @ + d.cnt]

skipPart(rd) == skipPadding(skipPayload(rd))

\* readPayload with the case cnt < bufferLen dropped
readPayloadNoSkip(rd, c, res, msg) ==
    LET d1 == DecodePart(ResetCnt(rd.dec), c, res, msg)
    IN  IF d1.cnt > rd.ph.bufferLength
        THEN [rd EXCEPT !.dec = d1, !.panicked = TRUE]
        ELSE [rd EXCEPT !.dec = d1, !.readBytes = @ + d1.cnt]

\* readPayload with the case cnt > bufferLen dropped
readPayloadNoPanic(rd, c, res, msg) ==
    LET d1 == DecodePart(ResetCnt(rd.dec), c, res, msg)
        bufferLen == rd.ph.bufferLength
        d2 == IF d1.cnt < bufferLen THEN Skip(d1, bufferLen - d1.cnt) ELSE d1
    IN  [rd EXCEPT !.dec = d2, !.readBytes = @ + d2.cnt]

\* readPart up to r.readBytes += int64(r.dec.Cnt()), with a part decoder
\* consuming c bytes with outcome res
readPayload(rd, c, res, msg) ==
    LET d1 == DecodePart(ResetCnt(rd.dec), c, res, msg)
        cnt == d1.cnt
        bufferLen == rd.ph.bufferLength
    IN  IF cnt > bufferLen
        THEN [rd EXCEPT !.dec = d1, !.panicked = TRUE]
        ELSE LET d2 == IF cnt < bufferLen THEN Skip(d1, bufferLen - cnt) ELSE d1
             IN  [rd EXCEPT !.dec = d2, !.readBytes = @ + d2.cnt]

\* readPart; the error it returns is PartError(dec, res, msg)
readPart(rd, c, res, msg) ==
    LET r1 == readPayload(rd, c, res, msg)
    IN  IF r1.panicked THEN r1 ELSE skipPadding(r1)

read(rd, part, c, res, msg) ==
    LET r1 == readPart(rd, c, res, msg)
        err == PartError(r1.dec, res, msg)
        r2 == IF err # NoError THEN [r1 EXCEPT !.err = err] ELSE r1
    IN  IF r1.panicked THEN r1
        ELSE CASE part.type = "HdbErrors" -> [r2 EXCEPT !.lastErrors = part]
               [] part.type = "RowsAffected" -> [r2 EXCEPT !.lastRowsAffected = part]
               [] OTHER -> r2

\* skip with its first test (trace or mandatory kind) dropped
skipReadsNoGate(rd) ==
    LET kind == rd.ph.partKind
    IN  IF kind \in rd.partCache THEN TRUE
        ELSE newGenPartReader(kind)

\* whether skip decodes the part (TRUE) or discards it (FALSE)
skipReads(rd) ==
    LET kind == rd.ph.partKind
    IN  IF ~(rd.protTrace \/ kind = PkError \/ kind = PkRowsAffected) THEN FALSE
        ELSE IF kind \in rd.partCache THEN TRUE
        ELSE newGenPartReader(kind)

\* skip; part is the value the generic part of this kind decodes to
skip(rd, part, c, res, msg) ==
    IF ~skipReads(rd) THEN skipPart(rd)
    ELSE read([rd EXCEPT !.partCache = @ \cup {rd.ph.partKind}], part, c, res, msg)

\* linkStmt with j++ dropped
RECURSIVE linkStmtNoAdvance(_, _, _, _, _)
linkStmtNoAdvance(errs, rows, ofs, i, j) ==
    IF i >= Len(rows) THEN errs
    ELSE IF rows[i + 1] = RaExecutionFailed
         THEN linkStmtNoAdvance(setStmtNo(errs, j, ofs + i), rows, ofs, i + 1, j)
         ELSE linkStmtNoAdvance(errs, rows, ofs, i + 1, j)

\* the loop of checkError that links statements to errors
RECURSIVE linkStmt(_, _, _, _, _)
linkStmt(errs, rows, ofs, i, j) ==
    IF i >= Len(rows) THEN errs
    ELSE IF rows[i + 1] = RaExecutionFailed
         THEN linkStmt(setStmtNo(errs, j, ofs + i), rows, ofs, i + 1, j + 1)
         ELSE linkStmt(errs, rows, ofs, i + 1, j)

\* lastErrors after the statement linking of checkError
fuse(rd) ==
    IF rd.lastErrors.present /\ rd.lastRowsAffected.present
    THEN [rd.lastErrors EXCEPT
            !.errs = linkStmt(@, rd.lastRowsAffected.rows, rd.lastRowsAffected.Ofs, 0, 0)]
    ELSE rd.lastErrors

\* the value checkError returns
checkErrorResult(rd) ==
    IF rd.err # NoError THEN rd.err
    ELSE IF rd.dec.err # NoError THEN rd.dec.err
    ELSE IF ~rd.lastErrors.present THEN NoError
    ELSE IF onlyWarnings(fuse(rd)) THEN NoError
    ELSE [tag |-> "hdbErrors", msg |-> rd.lastErrors.msg, errs |-> fuse(rd).errs]

\* the deferred reset of checkError
resetFlags(rd) ==
    [rd EXCEPT !.lastErrors = NoPart, !.lastRowsAffected = NoPart,
               !.err = NoError, !.dec = ResetError(@)]

checkError(rd) == resetFlags(rd)

(***************************************************************************)
(* The stream read by the Reader. A message is given by its shape: the     *)
(* sequence of its segments, each the sequence of the buffer lengths of    *)
(* its parts. Part kinds and part contents are drawn when the Reader       *)
(* decodes them.                                                           *)
(***************************************************************************)
messageHeaderSize == 32
\* the function code the segments of message m carry
FunctionCodeOf(m) == IF m % 2 = 1 THEN "FcSelect" ELSE "FcInsert"
Kinds == {PkError, PkRowsAffected, PkCommand, PkAuthentication, PkUnknown}

Segments == SeqsUpTo(PartSizes, MaxParts)
NumParts(sp) == SumSeq([k \in 1..Len(sp) |-> Len(sp[k])])
\* one to MaxSegm segments with at most MaxParts parts in all
Shapes == { sp \in SeqsUpTo(Segments, MaxSegm) : sp # <<>> /\ NumParts(sp) <= MaxParts }

PartWire(len) == partHeaderSize + len + padBytes(len)
SegWire(seg) == segmentHeaderSize + SumSeq([k \in 1..Len(seg) |-> PartWire(seg[k])])
\* varPartLength of a legal message of this shape
TrueLen(sp) == SumSeq([k \in 1..Len(sp) |-> SegWire(sp[k])])
\* offset of the header of segment i (0-based) after the message header
SegOffset(sp, i) == TrueLen(SubSeq(sp, 1, i))
\* offset of the header of part j (0-based) of segment i
PartOffset(sp, i, j) ==
    SegOffset(sp, i) + segmentHeaderSize
        + SumSeq([k \in 1..j |-> PartWire(sp[i + 1][k])])

VarLens == { TrueLen(sp) : sp \in Shapes }

\* what a part of this kind of the stream can decode to: one to MaxErrs
\* errors; MaxRows statements at offset 2, any of them failed
Contents(kind, m) ==
    CASE kind = PkError -> { MkHdbErrors(e, m) : e \in ErrLists \ { <<>> } }
      [] kind = PkRowsAffected ->
            { MkRowsAffected(rows, 2, m) : rows \in { l \in RowLists : Len(l) = MaxRows } }
      [] OTHER -> { MkOtherPart(m) }

\* byte counts a part decoder may reach on a part of this buffer length
DecCnts(len) == { len - 2, len, len + 1 }
DecResults == {"ok", "err", "sticky"}

(***************************************************************************)
(* State.                                                                  *)
(*   r         the Reader                                                  *)
(*   pc        position of IterateParts: "idle" (not running), "seg" (at   *)
(*             the head of the segment loop), "part" (at the head of the   *)
(*             part loop), "handle" (part header decoded, handler to be    *)
(*             called), "panic" (a panic left IterateParts)                *)
(*   segIdx, partIdx   the loop variables i and j (0 outside the call)     *)
(*   hasFn     fn /= nil (FALSE for SkipParts)                             *)
(*   ret       the value the last IterateParts call returned               *)
(*   msgNo     number of the message being read (calls so far)             *)
(*   shape     the shape of the message being read                         *)
(*   streamOK  the stream is positioned at the start of a message          *)
(*   aligned   every header of this call was decoded at its offset         *)
(*   quota     part headers left to the run                                *)
(*   faults    number of faults so far                                     *)
(*   call      history of the running call: it reached checkError          *)
(*             (completed), a read returned an error (readErr), the last   *)
(*             errors part and rows-affected part read, the function code  *)
(*             of its segment headers (fc), the error list as checkError   *)
(*             left it (fused), parts announced and parts handled          *)
(*   lp        history of the part just handled                            *)
(*   cancelled the context handed to IterateParts is cancelled             *)
(***************************************************************************)
VARIABLES r, pc, segIdx, partIdx, hasFn, ret, msgNo, shape, streamOK, aligned,
          quota, faults, call, lp, cancelled

rvars == <<r, pc, segIdx, partIdx, hasFn, ret, msgNo, shape, streamOK, aligned,
           quota, faults, call, lp, cancelled>>

NoCall ==
    [completed |-> FALSE, readErr |-> FALSE, errors |-> NoPart, rows |-> NoPart,
     fc |-> "FcNil", fused |-> NoPart, parts |-> 0, handled |-> 0]
NoLastPart ==
    [via |-> "none", kind |-> PkUnknown, bufferLength |-> 0, cnt |-> 0, res |-> "ok",
     payload |-> 0, accounted |-> 0, pad |-> 0, last |-> FALSE, cached |-> FALSE]

\* a new Reader on a stream, with q part headers left to the run
RInitWith(q) ==
    /\ r \in { newReader(t) : t \in BOOLEAN }
    /\ pc = "idle"
    /\ segIdx = 0
    /\ partIdx = 0
    /\ hasFn = FALSE
    /\ ret = NoError
    /\ msgNo = 0
    /\ shape = <<>>
    /\ streamOK = TRUE
    /\ aligned = TRUE
    /\ quota = q
    /\ faults = 0
    /\ call = NoCall
    /\ lp = NoLastPart
    /\ cancelled = FALSE

RInit == RInitWith(MaxParts)

\* IterateParts returns err from the middle of the loops (no checkError)
Return(rd, err) ==
    /\ r' = rd
    /\ pc' = "idle"
    /\ ret' = err
    /\ streamOK' = (aligned /\ rd.dec.err = NoError /\ rd.dec.pos = TrueLen(shape))
    /\ segIdx' = 0
    /\ partIdx' = 0
    /\ UNCHANGED <<hasFn, msgNo, shape, aligned, quota>>

\* IterateParts / SkipParts up to the head of the segment loop
IterateParts(fn, ioFail, sp, vpl, nseg) ==
    /\ pc = "idle"
    /\ msgNo < MaxMsgs
    /\ IF streamOK THEN sp # <<>> /\ NumParts(sp) <= quota
                        /\ vpl = TrueLen(sp) /\ nseg = Len(sp)
                   ELSE sp = <<>>
    /\ LET m == msgNo + 1
           d == DecodeHeader(r.dec, messageHeaderSize, ioFail, m)
       IN  /\ msgNo' = m
           /\ hasFn' = fn
           /\ call' = NoCall
           /\ lp' = NoLastPart
           /\ IF d.err # NoError
              THEN /\ r' = [r EXCEPT !.dec = d]
                   /\ ret' = d.err
                   /\ streamOK' = FALSE
                   /\ UNCHANGED <<pc, segIdx, partIdx, shape, aligned, quota>>
              ELSE /\ r' = [r EXCEPT !.dec = [d EXCEPT !.pos = 0],
                                     !.mh = [varPartLength |-> vpl, noOfSegm |-> nseg],
                                     !.readBytes = 0]
                   /\ shape' = sp
                   /\ aligned' = streamOK
                   /\ pc' = "seg"
                   /\ segIdx' = 0
                   /\ ret' = NoError
                   /\ UNCHANGED <<partIdx, streamOK, quota>>

\* the segment header of segment segIdx
SegmentHeader(ioFail, nparts) ==
    /\ pc = "seg"
    /\ segIdx < r.mh.noOfSegm
    /\ LET al == aligned /\ r.dec.pos = SegOffset(shape, segIdx)
           d == DecodeHeader(r.dec, segmentHeaderSize, ioFail, msgNo)
           fc == FunctionCodeOf(msgNo)
       IN  /\ IF al THEN nparts = Len(shape[segIdx + 1]) ELSE nparts <= quota
           /\ IF d.err # NoError
              THEN /\ Return([r EXCEPT !.dec = d], d.err)
                   /\ UNCHANGED <<call, lp>>
              ELSE /\ r' = [r EXCEPT !.dec = d,
                                     !.sh = [noOfParts |-> nparts, functionCode |-> fc],
                                     !.readBytes = @ + segmentHeaderSize,
                                     !.numPart = nparts,
                                     !.cntPart = 0]
                   /\ aligned' = al
                   /\ call' = [call EXCEPT !.fc = fc, !.parts = @ + nparts]
                   /\ IF nparts > 0
                      THEN pc' = "part" /\ partIdx' = 0 /\ UNCHANGED segIdx
                      ELSE pc' = "seg" /\ segIdx' = segIdx + 1 /\ UNCHANGED partIdx
                   /\ lp' = NoLastPart
                   /\ UNCHANGED <<hasFn, ret, msgNo, shape, streamOK, quota>>

\* the part header of part partIdx of segment segIdx
PartHeader(ioFail, kind, len) ==
    /\ pc = "part"
    /\ LET al == aligned /\ r.dec.pos = PartOffset(shape, segIdx, partIdx)
           d == DecodeHeader(r.dec, partHeaderSize, ioFail, msgNo)
       IN  /\ al => len = shape[segIdx + 1][partIdx + 1]
           /\ IF d.err # NoError
              THEN /\ Return([r EXCEPT !.dec = d], d.err)
                   /\ UNCHANGED <<call, lp>>
              ELSE /\ r' = [r EXCEPT !.dec = d,
                                     !.ph = [partKind |-> kind, bufferLength |-> len],
                                     !.readBytes = @ + partHeaderSize,
                                     !.cntPart = @ + 1]
                   /\ aligned' = al
                   /\ pc' = "handle"
                   /\ quota' = quota - 1
                   /\ lp' = NoLastPart
                   /\ UNCHANGED <<segIdx, partIdx, hasFn, ret, msgNo, shape, streamOK,
                                  call>>

\* the loops of IterateParts go on to the next part or segment
Advance ==
    /\ IF partIdx + 1 < r.sh.noOfParts
       THEN pc' = "part" /\ partIdx' = partIdx + 1 /\ UNCHANGED segIdx
       ELSE pc' = "seg" /\ segIdx' = segIdx + 1 /\ UNCHANGED partIdx
    /\ UNCHANGED <<hasFn, ret, msgNo, shape, streamOK, aligned, quota>>

Panic(rd) ==
    /\ r' = rd
    /\ pc' = "panic"
    /\ UNCHANGED <<segIdx, partIdx, hasFn, ret, msgNo, shape, streamOK, aligned, quota>>

\* history of the part just handled (rp: the Reader after the payload, r1:
\* after the padding): how it was handled (via), the bytes the part decoder
\* consumed (cnt) and its outcome (res), the bytes consumed from the stream
\* for the payload and for the padding, the bytes added to readBytes for the
\* payload (accounted), whether it was the last part of its segment, whether
\* the part cache grew
ReadHistory(via, c, res, rp, r1, cached) ==
    [via |-> via, kind |-> r.ph.partKind, bufferLength |-> r.ph.bufferLength,
     cnt |-> c, res |-> res,
     payload |-> rp.dec.pos - r.dec.pos,
     accounted |-> rp.readBytes - r.readBytes,
     pad |-> r1.dec.pos - rp.dec.pos,
     last |-> r.cntPart = r.numPart, cached |-> cached]

NoteRead(part, err) ==
    call' = [call EXCEPT !.readErr = @ \/ err # NoError,
                         !.errors = IF part.type = "HdbErrors" THEN part ELSE @,
                         !.rows = IF part.type = "RowsAffected" THEN part ELSE @,
                         !.handled = @ + 1]

\* the handler calls read(part) once and returns: the error of read
\* ("propagate"), nil ("swallow") or an error of its own ("fail")
HandlerReads(part, c, res, how) ==
    /\ pc = "handle"
    /\ hasFn
    /\ LET rp == readPayload(r, c, res, msgNo)
           r1 == read(r, part, c, res, msgNo)
           err == PartError(r1.dec, res, msgNo)
           out == CASE how = "propagate" -> err
                    [] how = "swallow" -> NoError
                    [] OTHER -> MkError("handlerErr", msgNo)
       IN  /\ lp' = ReadHistory("read_fn", c, res, rp, r1, FALSE)
           /\ IF r1.panicked
              THEN Panic(r1) /\ UNCHANGED call
              ELSE /\ NoteRead(part, err)
                   /\ IF out # NoError
                      THEN Return(r1, out)
                      ELSE r' = r1 /\ Advance

\* the handler returns nil without calling read, or there is no handler:
\* IterateParts calls skip
HandlerDeclines(part, c, res) ==
    /\ pc = "handle"
    /\ IF skipReads(r)
       THEN LET rd == [r EXCEPT !.partCache = @ \cup {r.ph.partKind}]
                rp == readPayload(rd, c, res, msgNo)
                r1 == skip(r, part, c, res, msgNo)
                err == PartError(r1.dec, res, msgNo)
            IN  /\ lp' = ReadHistory("generic", c, res, rp, r1, r1.partCache # r.partCache)
                /\ IF r1.panicked
                   THEN Panic(r1) /\ UNCHANGED call
                   ELSE /\ NoteRead(part, err)
                        /\ IF err # NoError
                           THEN Return(r1, err)
                           ELSE r' = r1 /\ Advance
       ELSE LET rp == skipPayload(r)
                r1 == skip(r, part, c, res, msgNo)
            IN  /\ c = r.ph.bufferLength
                /\ res = "ok"
                /\ part = MkOtherPart(msgNo)
                /\ lp' = ReadHistory("skipped", 0, "ok", rp, r1, r1.partCache # r.partCache)
                /\ call' = [call EXCEPT !.handled = @ + 1]
                /\ IF r1.panicked
                   THEN Panic(r1)
                   ELSE r' = r1 /\ Advance

\* the handler returns an error without calling read
HandlerFails ==
    /\ pc = "handle"
    /\ hasFn
    /\ Return(r, MkError("handlerErr", msgNo))
    /\ UNCHANGED <<call, lp>>

\* all segments are processed: return r.checkError(ctx)
CheckError ==
    /\ pc = "seg"
    /\ segIdx >= r.mh.noOfSegm
    /\ ret' = checkErrorResult(r)
    /\ r' = checkError(r)
    /\ pc' = "idle"
    /\ streamOK' = (aligned /\ r.dec.err = NoError /\ r.dec.pos = TrueLen(shape))
    /\ call' = [call EXCEPT !.completed = TRUE,
                            !.fused = IF r.err = NoError /\ r.dec.err = NoError
                                      THEN fuse(r) ELSE r.lastErrors]
    /\ lp' = NoLastPart
    /\ segIdx' = 0
    /\ partIdx' = 0
    /\ UNCHANGED <<hasFn, msgNo, shape, aligned, quota>>

(***************************************************************************)
(* Writer.                                                                 *)
(***************************************************************************)
\* width of the 32-bit fields of the headers, scaled down so that both size
\* limits of _write are within reach of the part sizes below
Int32Bits == 7
MaxInt32 == 2 ^ Int32Bits - 1
MaxUint32 == 2 ^ (Int32Bits + 1) - 1

\* the conversions int32(x) and uint32(x) of an int64 of this width
int32(x) == ((x + 2 ^ Int32Bits) % 2 ^ (Int32Bits + 1)) - 2 ^ Int32Bits
uint32(x) == x % 2 ^ (Int32Bits + 1)
\* the conversion int16(x) of the number of parts, at its width
int16(x) == ((x + 2 ^ 15) % 2 ^ 16) - 2 ^ 15

\* parts handed to one Write
MaxWParts == 2
\* size of the client-info part that carries the session variables
ClientInfoSize == 21

\* one message type that does not support client-info and one that does
MessageTypes == {"MtAuthenticate", "MtExecuteDirect"}
ClientInfoSupported(messageType) == messageType = "MtExecuteDirect"

skRequest == "skRequest"

\* sizes (part.size()) of the parts handed to Write
WSizes == {5, 8, MaxInt32, MaxUint32}
WParts == { [kind |-> PkCommand, size |-> s] : s \in WSizes }
WPartLists == SeqsUpTo(WParts, MaxWParts)

\* (*clientInfo)(&w.sv)
clientInfo == [kind |-> PkClientInfo, size |-> ClientInfoSize]

\* the places where _write can fail on an encoder or I/O error: the message
\* header, the segment header, setNumArg / the part header / the payload /
\* the padding of part k, the final Flush
FailPoints ==
    { [at |-> a, k |-> 0] : a \in {"none", "mh", "sh", "flush"} }
        \cup { [at |-> a, k |-> k] :
                    a \in {"numArg", "ph", "part", "zeroes"}, k \in 1..(MaxWParts + 1) }

NewWriter(sv) == [sv |-> sv, svSent |-> FALSE]

\* svInject with the test on svSent dropped
svInjectAgain(wr, messageType) ==
    wr.sv /\ ClientInfoSupported(messageType)

\* the check on session variables to be sent as ClientInfo
svInject(wr, messageType) ==
    wr.sv /\ ~wr.svSent /\ ClientInfoSupported(messageType)

\* size of the message: segment header, part headers, payloads, padding
RECURSIVE messageSize(_)
messageSize(parts) ==
    IF parts = <<>> THEN segmentHeaderSize
    ELSE LET s == Head(parts).size
         IN  partHeaderSize + (s + padBytes(s)) + messageSize(Tail(parts))

\* the part loop of _write without bufferSize -= partHeaderSize + size + pad
RECURSIVE writePartsNoRoll(_, _, _, _)
writePartsNoRoll(parts, i, bufferSize, fail) ==
    IF i > Len(parts) THEN <<>>
    ELSE LET size == parts[i].size
             pad == padBytes(size)
             ph == [item |-> "ph", partKind |-> parts[i].kind,
                    bufferLength |-> int32(size), bufferSize |-> int32(bufferSize)]
         IN  IF fail.k = i /\ fail.at \in {"numArg", "ph"} THEN <<>>
             ELSE IF fail.k = i /\ fail.at = "part" THEN <<ph>>
             \* the result of Zeroes is not looked at; the buffered writer
             \* that failed accepts no more data
             ELSE IF fail.k = i /\ fail.at = "zeroes"
                  THEN <<ph, [item |-> "part", partKind |-> parts[i].kind, size |-> size]>>
             ELSE <<ph, [item |-> "part", partKind |-> parts[i].kind, size |-> size],
                    [item |-> "zeroes", n |-> pad]>>
                  \o writePartsNoRoll(parts, i + 1, bufferSize, fail)

\* what the part loop of _write emits from part i on, with bufferSize left
RECURSIVE writeParts(_, _, _, _)
writeParts(parts, i, bufferSize, fail) ==
    IF i > Len(parts) THEN <<>>
    ELSE LET size == parts[i].size
             pad == padBytes(size)
             ph == [item |-> "ph", partKind |-> parts[i].kind,
                    bufferLength |-> int32(size), bufferSize |-> int32(bufferSize)]
         IN  IF fail.k = i /\ fail.at \in {"numArg", "ph"} THEN <<>>
             ELSE IF fail.k = i /\ fail.at = "part" THEN <<ph>>
             \* the result of Zeroes is not looked at; the buffered writer
             \* that failed accepts no more data
             ELSE IF fail.k = i /\ fail.at = "zeroes"
                  THEN <<ph, [item |-> "part", partKind |-> parts[i].kind, size |-> size]>>
             ELSE <<ph, [item |-> "part", partKind |-> parts[i].kind, size |-> size],
                    [item |-> "zeroes", n |-> pad]>>
                  \o writeParts(parts, i + 1, bufferSize - (partHeaderSize + size + pad), fail)

\* _write without the error of the final Flush
writeErrorNoFlush(parts, size, fail) ==
    IF size > MaxUint32 THEN "exceedsMessageHeader"
    ELSE IF fail.at = "mh" THEN "encErr"
    ELSE IF size > MaxInt32 THEN "exceedsPartHeader"
    ELSE IF fail.at = "sh" THEN "encErr"
    ELSE IF fail.at \in {"numArg", "ph", "part"} /\ fail.k <= Len(parts) THEN "encErr"
    ELSE "nil"

\* the error _write returns; a failed write of the padding comes back from
\* the buffered writer with the Flush at the latest
writeError(parts, size, fail) ==
    IF size > MaxUint32 THEN "exceedsMessageHeader"
    ELSE IF fail.at = "mh" THEN "encErr"
    ELSE IF size > MaxInt32 THEN "exceedsPartHeader"
    ELSE IF fail.at = "sh" THEN "encErr"
    ELSE IF fail.at \in {"numArg", "ph", "part"} /\ fail.k <= Len(parts) THEN "encErr"
    ELSE IF fail.at = "zeroes" /\ fail.k <= Len(parts) THEN "flushErr"
    ELSE IF fail.at = "flush" THEN "flushErr"
    ELSE "nil"

\* _write came to its last line and the Flush of the buffered writer
\* returned no error
writeFlushed(parts, size, fail) ==
    /\ size <= MaxInt32
    /\ fail.at = "none"

\* the sentinel of a connection that is to be discarded, errors.Join and
\* errors.Is on the joined error; Write returns nil as the empty join
ErrBadConn == "driver.ErrBadConn"
nil == <<>>
errorsJoin(err, sentinel) == <<err, sentinel>>
errorsIs(err, target) == \E i \in 1..Len(err) : err[i] = target

\* what _write hands to the encoder
writeOutput(sessionID, messageType, commit, parts, size, fail) ==
    LET mh == [item |-> "mh", sessionID |-> sessionID, varPartLength |-> uint32(size),
               varPartSize |-> uint32(size), noOfSegm |-> 1]
        sh == [item |-> "sh", messageType |-> messageType, commit |-> commit,
               segmentKind |-> skRequest, segmentLength |-> int32(size), segmentOfs |-> 0,
               noOfParts |-> int16(Len(parts)), segmentNo |-> 1]
    IN  IF size > MaxUint32 \/ fail.at = "mh" THEN <<>>
        ELSE IF size > MaxInt32 \/ fail.at = "sh" THEN <<mh>>
        ELSE <<mh, sh>> \o writeParts(parts, 1, size - segmentHeaderSize, fail)

(***************************************************************************)
(*   w      the Writer                                                     *)
(*   out    what the last Write handed to the encoder                      *)
(*   wret   the error the last Write returned (nil: none)                  *)
(*   wcall  history of the Write calls: of the last one, whether its type  *)
(*          supports client-info (supp), the number of parts handed in     *)
(*          (given), whether the client-info part was prepended (inj) and  *)
(*          the error of _write (err), whether the Flush was reached and   *)
(*          returned nil (flushed); suppBefore: an earlier Write had a     *)
(*          type that supports client-info                                 *)
(***************************************************************************)
VARIABLES w, out, wret, wcall

wvars == <<w, out, wret, wcall>>

NoWrite ==
    [called |-> FALSE, supp |-> FALSE, given |-> 0, inj |-> FALSE, err |-> "nil",
     flushed |-> FALSE, suppBefore |-> FALSE]

WInit ==
    /\ w \in { NewWriter(sv) : sv \in BOOLEAN }
    /\ out = <<>>
    /\ wret = nil
    /\ wcall = NoWrite

\* Write: _write, its error joined with driver.ErrBadConn
Write(sessionID, messageType, commit, given, fail) ==
    /\ LET inject == svInject(w, messageType)
           parts == IF inject THEN <<clientInfo>> \o given ELSE given
           size == messageSize(parts)
           err == writeError(parts, size, fail)
       IN  /\ fail.k <= Len(parts)
           /\ w' = IF inject THEN [w EXCEPT !.svSent = TRUE] ELSE w
           /\ out' = writeOutput(sessionID, messageType, commit, parts, size, fail)
           /\ wret' = IF err # "nil" THEN errorsJoin(err, ErrBadConn) ELSE nil
           /\ wcall' = [called |-> TRUE, supp |-> ClientInfoSupported(messageType),
                         given |-> Len(given), inj |-> inject, err |-> err,
                         flushed |-> writeFlushed(parts, size, fail),
                         suppBefore |-> wcall.suppBefore \/ wcall.supp]

WNext ==
    \E messageType \in MessageTypes, commit \in BOOLEAN, given \in WPartLists,
       fail \in FailPoints :
        Write(1, messageType, commit, given, fail)

(***************************************************************************)
(* Histogram. A sample is a whole number of units of the histogram; the    *)
(* float64 arithmetic of the source is exact on these.                     *)
(***************************************************************************)
\* add calls on one histogram, and the length of its upper bounds
MaxAdds == 3
MaxBounds == 2

\* upper bounds: the ascending sequences over BoundValues
BoundValues == {0, 1, 3}
UpperBounds ==
    { b \in SeqsUpTo(BoundValues, MaxBounds) :
        \A i \in 1..(Len(b) - 1) : b[i] <= b[i + 1] }

\* the samples: negative, on a bound, between and above the bounds
HistValues == -2..4

newHistogram(upperBounds) ==
    [count |-> 0, sum |-> 0, upperBounds |-> upperBounds,
     boundCounts |-> [i \in 1..Len(upperBounds) |-> 0], underflowCount |-> 0]

\* a binary search that goes past the elements equal to target
RECURSIVE BinarySearchPast(_, _, _, _)
BinarySearchPast(x, target, i, j) ==
    IF i >= j THEN i
    ELSE LET mid == (i + j) \div 2
         IN  IF x[mid + 1] <= target
             THEN BinarySearchPast(x, target, mid + 1, j)
             ELSE BinarySearchPast(x, target, i, mid)

\* slices.BinarySearch: the position (from 0) of target in x[i..j), or the
\* one where it would be inserted
RECURSIVE BinarySearch(_, _, _, _)
BinarySearch(x, target, i, j) ==
    IF i >= j THEN i
    ELSE LET mid == (i + j) \div 2
         IN  IF x[mid + 1] < target
             THEN BinarySearch(x, target, mid + 1, j)
             ELSE BinarySearch(x, target, i, mid)

\* add that increments the bucket at idx only
addOneBucket(hist, v) ==
    LET neg == v < 0
        v0 == IF neg THEN 0 ELSE v
        idx == BinarySearch(hist.upperBounds, v0, 0, Len(hist.upperBounds))
    IN  [hist EXCEPT
            !.count = @ + 1,
            !.underflowCount = IF neg THEN @ + 1 ELSE @,
            !.sum = @ + v0,
            !.boundCounts = [i \in DOMAIN @ |-> IF i - 1 = idx THEN @[i] + 1 ELSE @[i]]]

\* add that does not clamp a negative sample
addNoClamp(hist, v) ==
    LET neg == v < 0
        idx == BinarySearch(hist.upperBounds, v, 0, Len(hist.upperBounds))
    IN  [hist EXCEPT
            !.count = @ + 1,
            !.underflowCount = IF neg THEN @ + 1 ELSE @,
            !.sum = @ + v,
            !.boundCounts = [i \in DOMAIN @ |-> IF i - 1 >= idx THEN @[i] + 1 ELSE @[i]]]

\* (h *histogram) add(v)
add(hist, v) ==
    LET neg == v < 0
        v0 == IF neg THEN 0 ELSE v
        idx == BinarySearch(hist.upperBounds, v0, 0, Len(hist.upperBounds))
    IN  [hist EXCEPT
            !.count = @ + 1,
            !.underflowCount = IF neg THEN @ + 1 ELSE @,
            !.sum = @ + v0,
            !.boundCounts = [i \in DOMAIN @ |-> IF i - 1 >= idx THEN @[i] + 1 ELSE @[i]]]

\* add up to h.sum += v: the loop over the buckets is still to come
addBegin(hist, v) ==
    LET neg == v < 0
        v0 == IF neg THEN 0 ELSE v
    IN  [hist EXCEPT
            !.count = @ + 1,
            !.underflowCount = IF neg THEN @ + 1 ELSE @,
            !.sum = @ + v0]

(***************************************************************************)
(*   histogram  a histogram                                                *)
(*   hsamples   history: the samples added to it, in order                 *)
(***************************************************************************)
VARIABLES histogram, hsamples

hvars == <<histogram, hsamples>>

HInit ==
    /\ histogram \in { newHistogram(b) : b \in UpperBounds }
    /\ hsamples = <<>>

\* a histogram that is not used
HIdle ==
    /\ histogram = newHistogram(<<>>)
    /\ hsamples = <<>>

HistAdd(v) ==
    /\ Len(hsamples) < MaxAdds
    /\ histogram' = add(histogram, v)
    /\ hsamples' = Append(hsamples, v)

HNext ==
    \E v \in HistValues : HistAdd(v)

(***************************************************************************)
(* Metrics: aggregators in a chain of parents, and collectors that feed    *)
(* them from a channel.                                                    *)
(***************************************************************************)
\* collectors (each with an aggregator of its own) and samples sent in a run
NumCollectors == 2
MaxSamples == 3

numCounter == 2
numGauge == 3
numTime == 3
numSQLTime == 8

counterBytesWritten == 1
gaugeTx == 1
timeAuth == 2
sqlTimeCommit == 7

\* depth of the channel of a collector, scaled
numMetricCollectorCh == 2

\* nanoseconds per time unit
timeUnitMap == [ns |-> 1, us |-> 1000, ms |-> 1000000, s |-> 1000000000]

\* the aggregators: one per collector, their common parent; no aggregator
nilMetrics == 0
Collectors == 1..NumCollectors
parentId == NumCollectors + 1
Aggregators == Collectors \cup {parentId}

newMetrics(parentMetrics, timeUnit, timeUpperBounds) ==
    [parentMetrics |-> parentMetrics,
     timeUnit |-> timeUnit,
     divider |-> timeUnitMap[timeUnit],
     counters |-> [i \in 1..numCounter |-> 0],
     gauges |-> [i \in 1..numGauge |-> 0],
     times |-> [i \in 1..numTime |-> newHistogram(timeUpperBounds)],
     sqlTimes |-> [i \in 1..numSQLTime |-> newHistogram(timeUpperBounds)]]

\* the samples; durations are whole microseconds, given in nanoseconds, so
\* that the division by the divider is exact
Samples ==
    { [type |-> "counterMsg", v |-> 5, idx |-> counterBytesWritten],
      [type |-> "gaugeMsg", v |-> -1, idx |-> gaugeTx],
      [type |-> "timeMsg", v |-> 2000, idx |-> timeAuth],
      [type |-> "sqlTimeMsg", v |-> -1000, idx |-> sqlTimeCommit] }

\* the time unit and upper bounds an aggregator is constructed with
TimeCfgs ==
    { [timeUnit |-> "us", timeUpperBounds |-> <<1, 3>>],
      [timeUnit |-> "ns", timeUpperBounds |-> <<1, 3>>] }
ChildCfg == [timeUnit |-> "us", timeUpperBounds |-> <<1, 3>>]

\* handleMsg, the part under the lock: the update of the aggregator itself
update(mt, msg) ==
    CASE msg.type = "counterMsg" ->
            [mt EXCEPT !.counters[msg.idx + 1] = @ + msg.v]
      [] msg.type = "gaugeMsg" ->
            [mt EXCEPT !.gauges[msg.idx + 1] = @ + msg.v]
      [] msg.type = "timeMsg" ->
            [mt EXCEPT !.times[msg.idx + 1] = add(@, msg.v \div mt.divider)]
      [] msg.type = "sqlTimeMsg" ->
            [mt EXCEPT !.sqlTimes[msg.idx + 1] = add(@, msg.v \div mt.divider)]

\* handleMsg under the lock, part way: a counter or gauge is loaded and not
\* yet stored, a histogram has count and sum of the sample and not yet its
\* buckets
updateBegin(mt, msg) ==
    CASE msg.type = "timeMsg" ->
            [mt EXCEPT !.times[msg.idx + 1] = addBegin(@, msg.v \div mt.divider)]
      [] msg.type = "sqlTimeMsg" ->
            [mt EXCEPT !.sqlTimes[msg.idx + 1] = addBegin(@, msg.v \div mt.divider)]
      [] OTHER -> mt

(***************************************************************************)
(*   metrics   the aggregators                                             *)
(*   mu        the read-write lock of each aggregator: the collector whose *)
(*             consumer holds the write lock (writer, 0: none), the number *)
(*             of read locks held (readers)                                *)
(*   mc        the collectors: the channel, whether it is closed, the      *)
(*             counter of the wait group                                   *)
(*   collect   the consumer goroutine of each collector: in the range loop *)
(*             ("range"), in handleMsg of aggregator at with msg, before   *)
(*             Lock ("handle") or between Lock and Unlock ("locked", with  *)
(*             the aggregator as it was loaded, old), returned ("done")    *)
(*   closer    the caller of close(): not called ("open"), in wg.Wait      *)
(*             ("wait"), returned ("returned"); history: the number of     *)
(*             samples in the channel when it was closed (pending)         *)
(*   statsPc   a caller of stats(): not in a call (nilMetrics), or the     *)
(*             aggregator whose read lock it holds                         *)
(*   sent      history: the samples sent on each channel, in order         *)
(*   applied   history: per collector and aggregator, the samples of the   *)
(*             collector that handleMsg has applied to the aggregator      *)
(***************************************************************************)
VARIABLES metrics, mu, mc, collect, closer, statsPc, sent, applied

mvars == <<metrics, mu, mc, collect, closer, statsPc, sent, applied>>

NoSample == [type |-> "none", v |-> 0, idx |-> 0]
NoMetrics == newMetrics(nilMetrics, "ns", <<>>)
noCollector == 0

\* the consumer of a collector in its range loop
InRange == [pc |-> "range", at |-> nilMetrics, msg |-> NoSample, old |-> NoMetrics]

newMetricsCollector == [msgCh |-> <<>>, closed |-> FALSE, wg |-> 1]

MInitWith(cfg) ==
    /\ metrics = [a \in Aggregators |->
                    IF a = parentId
                    THEN newMetrics(nilMetrics, cfg.timeUnit, cfg.timeUpperBounds)
                    ELSE newMetrics(parentId, ChildCfg.timeUnit, ChildCfg.timeUpperBounds)]
    /\ mu = [a \in Aggregators |-> [writer |-> noCollector, readers |-> 0]]
    /\ mc = [c \in Collectors |-> newMetricsCollector]
    /\ collect = [c \in Collectors |-> InRange]
    /\ closer = [c \in Collectors |-> [pc |-> "open", pending |-> 0]]
    /\ statsPc = nilMetrics
    /\ sent = [c \in Collectors |-> <<>>]
    /\ applied = [c \in Collectors |-> [a \in Aggregators |-> <<>>]]

MInit == \E cfg \in TimeCfgs : MInitWith(cfg)

\* no metrics and no collector constructed
MIdle ==
    /\ metrics = <<>>
    /\ mu = <<>>
    /\ mc = <<>>
    /\ collect = <<>>
    /\ closer = <<>>
    /\ statsPc = nilMetrics
    /\ sent = <<>>
    /\ applied = <<>>

\* a send on a channel without a limit
SendUnbounded(c, msg) ==
    /\ SumSeq([i \in Collectors |-> Len(sent[i])]) < MaxSamples
    /\ ~mc[c].closed
    /\ mc' = [mc EXCEPT ![c].msgCh = Append(@, msg)]
    /\ sent' = [sent EXCEPT ![c] = Append(@, msg)]
    /\ UNCHANGED <<metrics, mu, collect, closer, statsPc, applied>>

\* a producer sends msg on the channel of collector c: the send blocks while
\* the channel is full
Send(c, msg) ==
    /\ SumSeq([i \in Collectors |-> Len(sent[i])]) < MaxSamples
    /\ ~mc[c].closed
    /\ Len(mc[c].msgCh) < numMetricCollectorCh
    /\ mc' = [mc EXCEPT ![c].msgCh = Append(@, msg)]
    /\ sent' = [sent EXCEPT ![c] = Append(@, msg)]
    /\ UNCHANGED <<metrics, mu, collect, closer, statsPc, applied>>

\* collect: the range loop takes the next sample and calls handleMsg
Receive(c) ==
    /\ collect[c].pc = "range"
    /\ mc[c].msgCh # <<>>
    /\ collect' = [collect EXCEPT ![c] = [InRange EXCEPT !.pc = "handle", !.at = c,
                                                          !.msg = Head(mc[c].msgCh)]]
    /\ mc' = [mc EXCEPT ![c].msgCh = Tail(@)]
    /\ UNCHANGED <<metrics, mu, closer, statsPc, sent, applied>>

\* handleMsg that does not wait for the lock
HandleMsgLockNoMutex(c) ==
    /\ collect[c].pc = "handle"
    /\ LET a == collect[c].at
       IN  /\ mu' = [mu EXCEPT ![a].writer = c]
           /\ collect' = [collect EXCEPT ![c].pc = "locked", ![c].old = metrics[a]]
           /\ metrics' = [metrics EXCEPT ![a] = updateBegin(@, collect[c].msg)]
    /\ UNCHANGED <<mc, closer, statsPc, sent, applied>>

\* handleMsg of the aggregator the consumer is at: m.mu.Lock() once no
\* goroutine holds the lock, and the switch up to the middle of its update
HandleMsgLock(c) ==
    /\ collect[c].pc = "handle"
    /\ LET a == collect[c].at
       IN  /\ mu[a].writer = noCollector
           /\ mu[a].readers = 0
           /\ mu' = [mu EXCEPT ![a].writer = c]
           /\ collect' = [collect EXCEPT ![c].pc = "locked", ![c].old = metrics[a]]
           /\ metrics' = [metrics EXCEPT ![a] = updateBegin(@, collect[c].msg)]
    /\ UNCHANGED <<mc, closer, statsPc, sent, applied>>

\* handleMsg that does not call the handleMsg of the parent
HandleMsgUnlockNoParent(c) ==
    /\ collect[c].pc = "locked"
    /\ LET a == collect[c].at
           msg == collect[c].msg
       IN  /\ metrics' = [metrics EXCEPT ![a] = update(collect[c].old, msg)]
           /\ mu' = [mu EXCEPT ![a].writer = noCollector]
           /\ applied' = [applied EXCEPT ![c][a] = Append(@, msg)]
           /\ collect' = [collect EXCEPT ![c] = InRange]
    /\ UNCHANGED <<mc, closer, statsPc, sent>>

\* handleMsg that goes on to the parent without m.mu.Unlock()
HandleMsgUnlockKeepsLock(c) ==
    /\ collect[c].pc = "locked"
    /\ LET a == collect[c].at
           msg == collect[c].msg
       IN  /\ metrics' = [metrics EXCEPT ![a] = update(collect[c].old, msg)]
           /\ applied' = [applied EXCEPT ![c][a] = Append(@, msg)]
           /\ collect' = [collect EXCEPT ![c] =
                            IF metrics[a].parentMetrics # nilMetrics
                            THEN [InRange EXCEPT !.pc = "handle", !.msg = msg,
                                                 !.at = metrics[a].parentMetrics]
                            ELSE InRange]
    /\ UNCHANGED <<mu, mc, closer, statsPc, sent>>

\* handleMsg: the rest of the update, m.mu.Unlock(), then on to the
\* handleMsg of the parent or back to the range loop
HandleMsgUnlock(c) ==
    /\ collect[c].pc = "locked"
    /\ LET a == collect[c].at
           msg == collect[c].msg
       IN  /\ metrics' = [metrics EXCEPT ![a] = update(collect[c].old, msg)]
           /\ mu' = [mu EXCEPT ![a].writer = noCollector]
           /\ applied' = [applied EXCEPT ![c][a] = Append(@, msg)]
           /\ collect' = [collect EXCEPT ![c] =
                            IF metrics[a].parentMetrics # nilMetrics
                            THEN [InRange EXCEPT !.pc = "handle", !.msg = msg,
                                                 !.at = metrics[a].parentMetrics]
                            ELSE InRange]
    /\ UNCHANGED <<mc, closer, statsPc, sent>>

\* stats that does not wait for the lock
StatsRLockNoWait(a) ==
    /\ statsPc = nilMetrics
    /\ mu' = [mu EXCEPT ![a].readers = @ + 1]
    /\ statsPc' = a
    /\ UNCHANGED <<metrics, mc, collect, closer, sent, applied>>

\* stats of aggregator a: m.mu.RLock() once no goroutine holds the write lock
StatsRLock(a) ==
    /\ statsPc = nilMetrics
    /\ mu[a].writer = noCollector
    /\ mu' = [mu EXCEPT ![a].readers = @ + 1]
    /\ statsPc' = a
    /\ UNCHANGED <<metrics, mc, collect, closer, sent, applied>>

\* stats: the snapshot is taken, the deferred m.mu.RUnlock()
StatsRUnlock ==
    /\ statsPc # nilMetrics
    /\ mu' = [mu EXCEPT ![statsPc].readers = @ - 1]
    /\ statsPc' = nilMetrics
    /\ UNCHANGED <<metrics, mc, collect, closer, sent, applied>>

\* a range loop that ends when the channel is closed, empty or not
CollectDoneNoDrain(c) ==
    /\ collect[c].pc = "range"
    /\ mc[c].closed
    /\ collect' = [collect EXCEPT ![c].pc = "done"]
    /\ mc' = [mc EXCEPT ![c].wg = @ - 1]
    /\ UNCHANGED <<metrics, mu, closer, statsPc, sent, applied>>

\* collect: the channel is closed and empty, the range loop ends, wg.Done
CollectDone(c) ==
    /\ collect[c].pc = "range"
    /\ mc[c].msgCh = <<>>
    /\ mc[c].closed
    /\ collect' = [collect EXCEPT ![c].pc = "done"]
    /\ mc' = [mc EXCEPT ![c].wg = @ - 1]
    /\ UNCHANGED <<metrics, mu, closer, statsPc, sent, applied>>

\* close(): close(mc.msgCh), then wg.Wait
Close(c) ==
    /\ closer[c].pc = "open"
    /\ mc' = [mc EXCEPT ![c].closed = TRUE]
    /\ closer' = [closer EXCEPT ![c] = [pc |-> "wait", pending |-> Len(mc[c].msgCh)]]
    /\ UNCHANGED <<metrics, mu, collect, statsPc, sent, applied>>

\* close(): wg.Wait returns
CloseReturn(c) ==
    /\ closer[c].pc = "wait"
    /\ mc[c].wg = 0
    /\ closer' = [closer EXCEPT ![c].pc = "returned"]
    /\ UNCHANGED <<metrics, mu, mc, collect, statsPc, sent, applied>>

(***************************************************************************)
(* Conversion of a field value to an SQL integer type.                     *)
(***************************************************************************)
\* widths of the SQL integer types; those of integer and bigint are scaled
TinyintBits == 8
SmallintBits == 16
IntegerBits == 20
BigintBits == 24

tcTinyint == "tcTinyint"
tcSmallint == "tcSmallint"
tcInteger == "tcInteger"
tcBigint == "tcBigint"
IntegerTypes == {tcTinyint, tcSmallint, tcInteger, tcBigint}

minTinyint == 0
maxTinyint == 2 ^ TinyintBits - 1
minSmallint == -(2 ^ (SmallintBits - 1))
maxSmallint == 2 ^ (SmallintBits - 1) - 1
minInteger == -(2 ^ (IntegerBits - 1))
maxInteger == 2 ^ (IntegerBits - 1) - 1
minBigint == -(2 ^ (BigintBits - 1))
maxBigint == 2 ^ (BigintBits - 1) - 1

minOf(tc) ==
    CASE tc = tcTinyint -> minTinyint [] tc = tcSmallint -> minSmallint
      [] tc = tcInteger -> minInteger [] tc = tcBigint -> minBigint
maxOf(tc) ==
    CASE tc = tcTinyint -> maxTinyint [] tc = tcSmallint -> maxSmallint
      [] tc = tcInteger -> maxInteger [] tc = tcBigint -> maxBigint

errIntegerOutOfRange == "errIntegerOutOfRange"

\* decimal strings: a sequence of digits, after "-" if negative
Digits == <<"0", "1", "2", "3", "4", "5", "6", "7", "8", "9">>
DigitValue(ch) == (CHOOSE i \in 1..10 : Digits[i] = ch) - 1

RECURSIVE FormatNat(_)
FormatNat(n) ==
    IF n < 10 THEN <<Digits[n + 1]>>
    ELSE Append(FormatNat(n \div 10), Digits[(n % 10) + 1])
FormatInt(n) == IF n < 0 THEN <<"-">> \o FormatNat(-n) ELSE FormatNat(n)

RECURSIVE ParseNat(_, _)
ParseNat(str, acc) ==
    IF str = <<>> THEN acc
    ELSE ParseNat(Tail(str), 10 * acc + DigitValue(Head(str)))
ParseInt(str) ==
    IF Head(str) = "-" THEN -ParseNat(Tail(str), 0) ELSE ParseNat(str, 0)

\* the forms of an input: a native integer, a value of a named integer
\* type, a pointer to an integer, a decimal string
Forms == {"int", "named", "ptr", "string"}
MkInput(form, n) ==
    CASE form = "int" -> [form |-> "int", val |-> n]
      [] form = "named" -> [form |-> "named", val |-> n]
      [] form = "ptr" -> [form |-> "ptr", val |-> [form |-> "int", val |-> n]]
      [] form = "string" -> [form |-> "string", val |-> FormatInt(n)]

\* the numbers tried for a type: around its limits, and -1, 0 and 42
NumbersFor(tc) ==
    { minOf(tc) - 1, minOf(tc), minOf(tc) + 1, -1, 0, 42,
      maxOf(tc) - 1, maxOf(tc), maxOf(tc) + 1 }

\* a native integer holds the numbers of bigint; a string holds any
Holds(form, n) == form = "string" \/ (minBigint <= n /\ n <= maxBigint)

\* the number an input stands for
RECURSIVE toInt64(_)
toInt64(v) ==
    CASE v.form \in {"int", "named"} -> v.val
      [] v.form = "ptr" -> toInt64(v.val)
      [] v.form = "string" -> ParseInt(v.val)

\* convertField that tests the upper limit only
convertFieldNoMin(tc, v) ==
    LET i64 == toInt64(v)
    IN  IF i64 > maxOf(tc)
        THEN [err |-> errIntegerOutOfRange, value |-> 0]
        ELSE [err |-> "nil", value |-> i64]

\* convertField for the integer type codes
convertField(tc, v) ==
    LET i64 == toInt64(v)
    IN  IF i64 > maxOf(tc) \/ i64 < minOf(tc)
        THEN [err |-> errIntegerOutOfRange, value |-> 0]
        ELSE [err |-> "nil", value |-> i64]

(***************************************************************************)
(*   conv   the last call of convertField: its type code and input, the    *)
(*          number the input was made of (n), what it returned             *)
(***************************************************************************)
VARIABLES conv

cvars == <<conv>>

NoConv ==
    [called |-> FALSE, tc |-> tcTinyint, v |-> MkInput("int", 0), n |-> 0,
     res |-> [err |-> "nil", value |-> 0]]

CInit == conv = NoConv

ConvertField(tc, form, n) ==
    /\ Holds(form, n)
    /\ conv' = [called |-> TRUE, tc |-> tc, v |-> MkInput(form, n), n |-> n,
                res |-> convertField(tc, MkInput(form, n))]

CNext ==
    \E tc \in IntegerTypes, form \in Forms :
        \E n \in NumbersFor(tc) : ConvertField(tc, form, n)

\* the variables beside those of the Reader and the Writer
xvars == <<hvars, mvars, cvars>>

vars == <<rvars, wvars, xvars>>

\* the context of the caller is cancelled, before or during a call; no line
\* of the Reader looks at it (ctx goes to the logger only)
Cancel ==
    /\ pc # "panic"
    /\ ~cancelled
    /\ cancelled' = TRUE
    /\ UNCHANGED <<r, pc, segIdx, partIdx, hasFn, ret, msgNo, shape, streamOK, aligned,
                   quota, call, lp>>

\* a step with a fault in it is taken only while fewer than MaxFaults
\* faults have happened
Fault(b) ==
    /\ b => faults < MaxFaults
    /\ faults' = IF b THEN faults + 1 ELSE faults

RNext ==
    \/ /\ pc = "idle"
       /\ msgNo < MaxMsgs
       /\ \E fn \in BOOLEAN, ioFail \in BOOLEAN :
            /\ Fault(ioFail)
            /\ IF streamOK
               THEN \E sp \in Shapes :
                        IterateParts(fn, ioFail, sp, TrueLen(sp), Len(sp))
               ELSE \E vpl \in VarLens, nseg \in 1..MaxSegm :
                        IterateParts(fn, ioFail, <<>>, vpl, nseg)
       /\ UNCHANGED <<cancelled, wvars, xvars>>
    \/ /\ pc = "seg"
       /\ \E ioFail \in BOOLEAN, nparts \in 0..MaxParts :
            SegmentHeader(ioFail, nparts) /\ Fault(ioFail)
       /\ UNCHANGED <<cancelled, wvars, xvars>>
    \/ /\ pc = "part"
       /\ \E ioFail \in BOOLEAN, kind \in Kinds, len \in PartSizes :
            PartHeader(ioFail, kind, len) /\ Fault(ioFail)
       /\ UNCHANGED <<cancelled, wvars, xvars>>
    \/ /\ pc = "handle"
       /\ hasFn
       /\ \E part \in Contents(r.ph.partKind, msgNo), c \in DecCnts(r.ph.bufferLength),
             res \in DecResults, how \in {"propagate", "swallow", "fail"} :
            /\ Fault(res # "ok" \/ c > r.ph.bufferLength \/ how = "fail")
            /\ HandlerReads(part, c, res, how)
       /\ UNCHANGED <<cancelled, wvars, xvars>>
    \/ /\ pc = "handle"
       /\ \E part \in Contents(r.ph.partKind, msgNo), c \in DecCnts(r.ph.bufferLength),
             res \in DecResults :
            /\ Fault(res # "ok" \/ c > r.ph.bufferLength)
            /\ HandlerDeclines(part, c, res)
       /\ UNCHANGED <<cancelled, wvars, xvars>>
    \/ HandlerFails /\ Fault(TRUE) /\ UNCHANGED <<cancelled, wvars, xvars>>
    \/ CheckError /\ Fault(FALSE) /\ UNCHANGED <<cancelled, wvars, xvars>>
    \/ Cancel /\ Fault(TRUE) /\ UNCHANGED <<wvars, xvars>>

\* the Reader, beside a Writer that is not used
Init == RInit /\ WInit /\ ~w.sv /\ HIdle /\ MIdle /\ CInit
Next == RNext
Spec == Init /\ [][Next]_vars

\* the Writer, beside a Reader that is not used
InitWriter == RInit /\ ~r.protTrace /\ WInit /\ HIdle /\ MIdle /\ CInit
NextWriter == WNext /\ UNCHANGED <<rvars, xvars>>
SpecWriter == InitWriter /\ [][NextWriter]_vars

\* a histogram, beside a Reader and a Writer that are not used
InitHistogram == RInit /\ ~r.protTrace /\ WInit /\ ~w.sv /\ HInit /\ MIdle /\ CInit
NextHistogram == HNext /\ UNCHANGED <<rvars, wvars, mvars, cvars>>
SpecHistogram == InitHistogram /\ [][NextHistogram]_vars

\* the metrics, beside a Reader, a Writer and a histogram that are not used
InitMetrics == RInit /\ ~r.protTrace /\ WInit /\ ~w.sv /\ HIdle /\ MInit /\ CInit
NextMetrics ==
    \/ (\E c \in Collectors, msg \in Samples : Send(c, msg)) /\ UNCHANGED <<rvars, wvars, hvars, cvars>>
    \/ (\E c \in Collectors : Receive(c)) /\ UNCHANGED <<rvars, wvars, hvars, cvars>>
    \/ (\E c \in Collectors : HandleMsgLock(c)) /\ UNCHANGED <<rvars, wvars, hvars, cvars>>
    \/ (\E c \in Collectors : HandleMsgUnlock(c)) /\ UNCHANGED <<rvars, wvars, hvars, cvars>>
    \/ (\E c \in Collectors : CollectDone(c)) /\ UNCHANGED <<rvars, wvars, hvars, cvars>>
    \/ (\E c \in Collectors : Close(c)) /\ UNCHANGED <<rvars, wvars, hvars, cvars>>
    \/ (\E c \in Collectors : CloseReturn(c)) /\ UNCHANGED <<rvars, wvars, hvars, cvars>>
SpecMetrics == InitMetrics /\ [][NextMetrics]_vars

\* the metrics with callers of stats(), all aggregators of one time unit
InitStats == RInit /\ ~r.protTrace /\ WInit /\ ~w.sv /\ HIdle /\ MInitWith(ChildCfg) /\ CInit
NextStats ==
    \/ NextMetrics
    \/ (\E a \in Aggregators : StatsRLock(a)) /\ UNCHANGED <<rvars, wvars, hvars, cvars>>
    \/ StatsRUnlock /\ UNCHANGED <<rvars, wvars, hvars, cvars>>
SpecStats == InitStats /\ [][NextStats]_vars

\* the metrics under fair scheduling, with samples of one kind.
\* A goroutine that can run does run (WF): the consumer in its range loop
\* and in handleMsg, wg.Wait of close(), the return of stats(). A goroutine
\* waiting in m.mu.Lock() gets the lock if it is free again and again (SF):
\* sync.RWMutex holds new readers back while a writer waits and hands the
\* lock to a starving waiter.
FairSamples == { msg \in Samples : msg.type = "timeMsg" }
NextFair ==
    \/ (\E c \in Collectors, msg \in FairSamples : Send(c, msg)) /\ UNCHANGED <<rvars, wvars, hvars, cvars>>
    \/ (\E c \in Collectors : Receive(c)) /\ UNCHANGED <<rvars, wvars, hvars, cvars>>
    \/ (\E c \in Collectors : HandleMsgLock(c)) /\ UNCHANGED <<rvars, wvars, hvars, cvars>>
    \/ (\E c \in Collectors : HandleMsgUnlock(c)) /\ UNCHANGED <<rvars, wvars, hvars, cvars>>
    \/ (\E c \in Collectors : CollectDone(c)) /\ UNCHANGED <<rvars, wvars, hvars, cvars>>
    \/ (\E c \in Collectors : Close(c)) /\ UNCHANGED <<rvars, wvars, hvars, cvars>>
    \/ (\E c \in Collectors : CloseReturn(c)) /\ UNCHANGED <<rvars, wvars, hvars, cvars>>
    \/ (\E a \in Aggregators : StatsRLock(a)) /\ UNCHANGED <<rvars, wvars, hvars, cvars>>
    \/ StatsRUnlock /\ UNCHANGED <<rvars, wvars, hvars, cvars>>
Fairness ==
    /\ \A c \in Collectors :
        /\ WF_vars(Receive(c) /\ UNCHANGED <<rvars, wvars, hvars, cvars>>)
        /\ SF_vars(HandleMsgLock(c) /\ UNCHANGED <<rvars, wvars, hvars, cvars>>)
        /\ WF_vars(HandleMsgUnlock(c) /\ UNCHANGED <<rvars, wvars, hvars, cvars>>)
        /\ WF_vars(CollectDone(c) /\ UNCHANGED <<rvars, wvars, hvars, cvars>>)
        /\ WF_vars(CloseReturn(c) /\ UNCHANGED <<rvars, wvars, hvars, cvars>>)
    /\ WF_vars(StatsRUnlock /\ UNCHANGED <<rvars, wvars, hvars, cvars>>)
SpecFair == InitStats /\ [][NextFair]_vars /\ Fairness

\* convertField, beside the rest that is not used
InitConvert == RInit /\ ~r.protTrace /\ WInit /\ ~w.sv /\ HIdle /\ MIdle /\ CInit
NextConvert == CNext /\ UNCHANGED <<rvars, wvars, hvars, mvars>>
SpecConvert == InitConvert /\ [][NextConvert]_vars

\* a Reader on the bytes one Write has written. An item of the message
\* takes ItemBytes bytes of the stream after the message header
ItemBytes(x) ==
    CASE x.item = "sh" -> segmentHeaderSize
      [] x.item = "ph" -> partHeaderSize
      [] x.item = "part" -> x.size
      [] x.item = "zeroes" -> x.n
      [] OTHER -> 0
\* stream position of the i-th item written, and the length of the stream
WrittenOffset(i) == SumSeq([j \in 1..(i - 1) |-> ItemBytes(out[j])])
WrittenLength == WrittenOffset(Len(out) + 1)
\* the headers of this kind that start at stream position pos
WrittenAt(item, pos) ==
    { out[i] : i \in { j \in 1..Len(out) : out[j].item = item /\ WrittenOffset(j) = pos } }
\* the shape of the message written: one segment with the buffer lengths of
\* its part headers
WrittenShape ==
    LET hs == SelectSeq(out, LAMBDA x : x.item = "ph")
    IN  << [k \in 1..Len(hs) |-> hs[k].bufferLength] >>

\* the part decoders of the round trip consume at most bufferLength bytes
FittingCnts(len) == { c \in DecCnts(len) : c <= len }

InitRoundTrip == RInitWith(MaxWParts + 1) /\ WInit /\ HIdle /\ MIdle /\ CInit
NextRoundTrip ==
    \/ /\ ~wcall.called
       /\ \E sessionID \in {1, 2}, messageType \in MessageTypes, commit \in BOOLEAN,
             given \in WPartLists, fail \in FailPoints :
            Write(sessionID, messageType, commit, given, fail)
       /\ UNCHANGED <<rvars, xvars>>
    \/ /\ pc = "idle"
       /\ msgNo = 0
       /\ wcall.called
       /\ wret = nil
       /\ \E fn \in BOOLEAN :
            IterateParts(fn, FALSE, WrittenShape, out[1].varPartLength, out[1].noOfSegm)
       /\ UNCHANGED <<faults, cancelled, wvars, xvars>>
    \/ /\ pc = "seg"
       /\ \E h \in WrittenAt("sh", r.dec.pos) : SegmentHeader(FALSE, h.noOfParts)
       /\ UNCHANGED <<faults, cancelled, wvars, xvars>>
    \/ /\ pc = "part"
       /\ \E h \in WrittenAt("ph", r.dec.pos) : PartHeader(FALSE, h.partKind, h.bufferLength)
       /\ UNCHANGED <<faults, cancelled, wvars, xvars>>
    \/ /\ pc = "handle"
       /\ hasFn
       /\ \E c \in FittingCnts(r.ph.bufferLength) :
            HandlerReads(MkOtherPart(msgNo), c, "ok", "propagate")
       /\ UNCHANGED <<faults, cancelled, wvars, xvars>>
    \/ /\ pc = "handle"
       /\ \E c \in FittingCnts(r.ph.bufferLength) :
            HandlerDeclines(MkOtherPart(msgNo), c, "ok")
       /\ UNCHANGED <<faults, cancelled, wvars, xvars>>
    \/ CheckError /\ UNCHANGED <<faults, cancelled, wvars, xvars>>
SpecRoundTrip == InitRoundTrip /\ [][NextRoundTrip]_vars

(***************************************************************************)
(* Properties of the Reader (specification Spec).                          *)
(***************************************************************************)
\* the running call reads a legal message from its start and every header
\* so far was decoded at its offset
LegalSoFar == shape # <<>> /\ aligned

\* C1: Reader byte conservation. When IterateParts returns from a legal
\* message whose parts were each read once by a decoder consuming at most
\* bufferLength bytes or declined (no fault happened), it has consumed
\* exactly varPartLength bytes after the message header: readBytes =
\* varPartLength and the stream is at the start of the next message.
C1_ByteConservation ==
    (pc = "idle" /\ call.completed /\ shape # <<>> /\ faults = 0)
        => /\ r.readBytes = r.mh.varPartLength
           /\ r.dec.pos = r.mh.varPartLength
           /\ streamOK

\* the statement index the claim gives error k (0-based) of a list fused
\* with rows at offset ofs: that of the k-th failed statement, if any
FailedBefore(rows, i) ==
    Cardinality({ h \in 0..(i - 1) : rows[h + 1] = RaExecutionFailed })
ExpectedStmtNo(rows, ofs, k) ==
    LET at == { i \in 0..(Len(rows) - 1) :
                    rows[i + 1] = RaExecutionFailed /\ FailedBefore(rows, i) = k }
    IN  IF at = {} THEN StmtNoUnset ELSE ofs + (CHOOSE i \in at : TRUE)
Linked(errs, rows, ofs) ==
    \A k \in 0..(Len(errs) - 1) : errs[k + 1].stmtNo = ExpectedStmtNo(rows, ofs, k)

C4_WarningOnlyVersusFatal ==
    (pc = "idle" /\ call.completed /\ ~call.readErr)
        => /\ IF ~call.errors.present \/ onlyWarnings(call.errors)
              THEN ret = NoError
              ELSE /\ ret.tag = "hdbErrors"
                   /\ ret.msg = msgNo
                   /\ Len(ret.errs) = Len(call.errors.errs)
                   /\ \A i \in 1..Len(ret.errs) :
                        ret.errs[i].level = call.errors.errs[i].level
           /\ FunctionCode(r) = call.fc

\* C5: Error and RowsAffected parts are always materialized. A declined part
\* of kind Error or RowsAffected is decoded, never discarded, and SkipParts
\* on a reply whose errors part has an error that is not a warning returns
\* that error list.
C5_AlwaysMaterialized ==
    /\ (lp.via = "skipped" => lp.kind \notin {PkError, PkRowsAffected})
    /\ (pc = "idle" /\ call.completed /\ ~hasFn /\ call.errors.present
            /\ ~onlyWarnings(call.errors))
        => /\ ret.tag = "hdbErrors"
           /\ ret.msg = msgNo
           /\ Len(ret.errs) = Len(call.errors.errs)

\* C6: Reader reuse. After every exit of IterateParts the last errors, the
\* last rows-affected, the stored read error and the sticky decoder error are
\* reset, and an error IterateParts returns is one of its own message.
C6_ResetOnEveryExit ==
    (pc = "idle" /\ msgNo > 0)
        => /\ r.lastErrors = NoPart
           /\ r.lastRowsAffected = NoPart
           /\ r.err = NoError
           /\ r.dec.err = NoError
           /\ ret # NoError => ret.msg = msgNo

C8_OverRead ==
    /\ (lp.via \in {"read_fn", "generic"} /\ lp.cnt > lp.bufferLength) => pc = "panic"
    /\ lp.accounted <= lp.bufferLength

\* a part decoder has over-read and the Reader has panicked
C8_Witness ==
    /\ pc = "panic" /\ lp.via = "read_fn" /\ lp.cnt > lp.bufferLength
    /\ r.panicked

\* the kinds the driver cannot instantiate generically, and unknown kinds
NonGenericKinds ==
    { PkAuthentication, "PkParameterMetadata", "PkParameters", "PkOutputParameters",
      "PkResultMetadata", PkResultset, PkUnknown }

\* C9: Forward compatibility. A declined part of a legal message whose kind
\* is unknown or not generically instantiable is discarded, with or without
\* protocol trace: exactly bufferLength bytes and the padding are consumed,
\* the part cache does not grow and the iteration goes on.
C9_ForwardCompatible ==
    /\ \A k \in NonGenericKinds : ~newGenPartReader(k)
    /\ (LegalSoFar /\ lp.via \in {"skipped", "generic"} /\ lp.kind \in NonGenericKinds)
        => /\ lp.via = "skipped"
           /\ lp.payload = lp.bufferLength
           /\ lp.pad = (padding - (lp.bufferLength % padding)) % padding
           /\ ~lp.cached
           /\ pc \in {"part", "seg"}

\* C13: Cancellation. IterateParts looks at the context at the start of the
\* message, between segments and after each part: with the context cancelled
\* it starts on no message, and after a part of the message has completed it
\* decodes no further part header and hands no further part to the handler.
C13_Cancellation ==
    [][cancelled =>
        /\ ~(pc = "idle" /\ pc' \in {"seg", "part", "handle"})
        /\ ~(pc = "part" /\ r.cntPart > 0 /\ pc' = "handle")]_vars

(***************************************************************************)
(* Properties of the Writer (specification SpecWriter).                    *)
(***************************************************************************)
Pad8(n) == (padding - (n % padding)) % padding

\* the parts a Write emitted and the total length they make
EmittedParts == SelectSeq(out, LAMBDA x : x.item = "part")
EmittedTotal ==
    segmentHeaderSize
        + SumSeq([i \in 1..Len(EmittedParts) |->
                    partHeaderSize + EmittedParts[i].size + Pad8(EmittedParts[i].size)])

\* C2: Writer framing conservation. For every Write that is not rejected the
\* message header carries noOfSegm = 1 and varPartLength = 13 + the sum of
\* 16 + s + pad(s) over the emitted parts, the segment header the same
\* length, segmentNo = 1, kind request and the number of emitted parts, each
\* part header the size of its part, and each payload is followed by pad(s)
\* zero bytes.
C2_Framing ==
    (wcall.called /\ wret = nil)
        => LET n == Len(EmittedParts)
           IN  /\ n = wcall.given + (IF wcall.inj THEN 1 ELSE 0)
               /\ Len(out) = 2 + 3 * n
               /\ out[1].item = "mh"
               /\ out[1].noOfSegm = 1
               /\ out[1].varPartLength = EmittedTotal
               /\ out[2].item = "sh"
               /\ out[2].segmentLength = EmittedTotal
               /\ out[2].segmentNo = 1
               /\ out[2].segmentKind = skRequest
               /\ out[2].noOfParts = n
               /\ \A i \in 1..n :
                    /\ out[3 * i].item = "ph"
                    /\ out[3 * i + 1].item = "part"
                    /\ out[3 * i].bufferLength = out[3 * i + 1].size
                    /\ out[3 * i].partKind = out[3 * i + 1].partKind
                    /\ out[3 * i + 2].item = "zeroes"
                    /\ out[3 * i + 2].n = Pad8(out[3 * i + 1].size)

\* a Write that emitted the client-info part and two parts, one of them
\* padded and one not
C2_Witness ==
    /\ wcall.called /\ wret = nil /\ wcall.inj
    /\ Len(out) = 11
    /\ out[8].n > 0
    /\ out[11].n = 0

\* C10: Session-variable injection. A Write prepends the client-info part
\* exactly when session variables are configured, its message type supports
\* client-info and no earlier Write had such a type; the part is the first
\* the Write emits, is counted in noOfParts and in the total length, and no
\* other Write emits a client-info part.
C10_Injection ==
    wcall.called
        => /\ wcall.inj <=> (w.sv /\ wcall.supp /\ ~wcall.suppBefore)
           /\ wcall.inj => w.svSent
           /\ (wcall.inj /\ Len(out) >= 3) => out[3].partKind = PkClientInfo
           /\ ~wcall.inj =>
                \A i \in 1..Len(out) :
                    out[i].item \in {"ph", "part"} => out[i].partKind # PkClientInfo
           /\ (wcall.inj /\ wret = nil)
                => /\ out[2].noOfParts = wcall.given + 1
                   /\ out[1].varPartLength = EmittedTotal
                   /\ EmittedParts[1] = [item |-> "part", partKind |-> PkClientInfo,
                                         size |-> ClientInfoSize]

\* a Write of a supporting type that is not the first one and carries no
\* client-info part, on a Writer with session variables
C10_Witness ==
    /\ wcall.called /\ w.sv /\ wcall.supp /\ wcall.suppBefore /\ ~wcall.inj
    /\ wret = nil /\ w.svSent

\* C11: Size rejection precedes emission. When Write rejects a message for
\* its size (over UINT32_MAX or over INT32_MAX), nothing of that message has
\* been handed to the encoder: no message header, segment header or part.
C11_RejectionPrecedesEmission ==
    (wcall.called /\ wcall.err \in {"exceedsMessageHeader", "exceedsPartHeader"})
        => out = <<>>

\* C12: Bad-connection signalling. Write returns nil exactly when the whole
\* message (both headers, and header, payload and padding of every part) was
\* encoded and the Flush returned no error; every error Write returns is the
\* error of _write joined with ErrBadConn: errors.Is finds the sentinel and
\* the original error in it.
C12_BadConn ==
    wcall.called
        => /\ wret = nil
                <=> /\ Len(out) = 2 + 3 * (wcall.given + (IF wcall.inj THEN 1 ELSE 0))
                    /\ wcall.flushed
           /\ wret # nil
                => /\ wcall.err # "nil"
                   /\ errorsIs(wret, ErrBadConn)
                   /\ errorsIs(wret, wcall.err)

\* a Write whose message was encoded whole and whose Flush failed: it
\* returned the flush error joined with ErrBadConn
C12_Witness ==
    /\ wcall.called /\ wcall.given = 2 /\ Len(out) = 8 /\ ~wcall.flushed
    /\ wcall.err = "flushErr"
    /\ errorsIs(wret, ErrBadConn) /\ errorsIs(wret, "flushErr")

\* the part headers a Write emitted and the bytes a part takes in the message
EmittedHeaders == SelectSeq(out, LAMBDA x : x.item = "ph")
WireSize(ph) == partHeaderSize + ph.bufferLength + Pad8(ph.bufferLength)

\* C22: Rolling bufferSize hint. In every message written the bufferSize of
\* the k-th part header is the total length less the segment header (13)
\* and less 16 + s + pad(s) for every part before it: the bytes of the
\* message from that part header on. It strictly decreases from part to
\* part, is at least 16 + bufferLength + pad(bufferLength) of its own part,
\* and nothing remains after the last part of a message written whole.
C22_RollingBufferSize ==
    LET hs == EmittedHeaders
        n == Len(hs)
    IN  /\ \A k \in 1..n :
            /\ hs[k].bufferSize =
                    out[1].varPartLength - segmentHeaderSize
                        - SumSeq([j \in 1..(k - 1) |-> WireSize(hs[j])])
            /\ hs[k].bufferSize >= WireSize(hs[k])
            /\ k > 1 => hs[k].bufferSize < hs[k - 1].bufferSize
        /\ (wcall.called /\ wret = nil) =>
                IF n = 0 THEN out[1].varPartLength - segmentHeaderSize = 0
                ELSE hs[n].bufferSize - WireSize(hs[n]) = 0

\* a message of three parts written whole: the hints are 88, 48 and 24
C22_Witness ==
    /\ wcall.called /\ wret = nil
    /\ Len(EmittedHeaders) = 3
    /\ EmittedHeaders[1].bufferSize = 88
    /\ EmittedHeaders[2].bufferSize = 48
    /\ EmittedHeaders[3].bufferSize = 24

(***************************************************************************)
(* Properties of the histogram (specification SpecHistogram).              *)
(***************************************************************************)
\* the number of negative samples and the sum of the clamped samples
Negatives == Cardinality({ i \in 1..Len(hsamples) : hsamples[i] < 0 })
ClampedSum == SumSeq([i \in 1..Len(hsamples) |-> IF hsamples[i] < 0 THEN 0 ELSE hsamples[i]])

\* C16: Histogram monotonicity. After any sequence of add calls on ascending
\* upper bounds the bucket counts are ascending, count[i] <= count[j] for
\* i <= j, and the count of the last bucket is at most the total count.
C16_Monotone ==
    /\ \A i, j \in 1..Len(histogram.boundCounts) :
            i <= j => histogram.boundCounts[i] <= histogram.boundCounts[j]
    /\ Len(histogram.boundCounts) > 0 => histogram.boundCounts[Len(histogram.boundCounts)] <= histogram.count

\* three samples in a histogram of two bounds: one in both buckets, one in
\* the last bucket only, one above the largest bound
C16_Witness ==
    /\ Len(hsamples) = 3 /\ Len(histogram.boundCounts) = 2
    /\ histogram.boundCounts = <<1, 2>>
    /\ histogram.count = 3

\* C17: Histogram sum lower bound. sum >= 0 after any sequence of add calls;
\* a negative sample adds one to underflowCount and to count, nothing to
\* sum, and is counted in bucket 0 and every later bucket; underflowCount
\* is the number of negative samples so far.
C17_SumLowerBound ==
    /\ histogram.sum >= 0
    /\ histogram.sum = ClampedSum
    /\ histogram.underflowCount = Negatives
    /\ histogram.count = Len(hsamples)
    /\ \A i \in 1..Len(histogram.boundCounts) : histogram.boundCounts[i] >= Negatives

\* two negative samples and a positive one
C17_Witness ==
    /\ Len(hsamples) = 3 /\ Negatives = 2 /\ histogram.underflowCount = 2
    /\ histogram.sum > 0 /\ histogram.count = 3
    /\ Len(histogram.boundCounts) = 2 /\ histogram.boundCounts[1] = 2

\* the samples so far whose clamped value max(v, 0) is at most bound
SamplesUpTo(bound) ==
    { k \in 1..Len(hsamples) :
        (IF hsamples[k] < 0 THEN 0 ELSE hsamples[k]) <= bound }

\* C23: Histogram bucket semantics. After any sequence of add calls on
\* ascending upper bounds, count is the number of samples and the count of
\* every bucket is the number of samples whose clamped value max(v, 0) is at
\* most the bucket's upper bound: a sample equal to a bound is counted in
\* the bucket of that bound, a sample above the largest bound in none.
C23_BucketSemantics ==
    /\ histogram.count = Len(hsamples)
    /\ Len(histogram.boundCounts) = Len(histogram.upperBounds)
    /\ \A i \in 1..Len(histogram.upperBounds) :
            histogram.boundCounts[i] = Cardinality(SamplesUpTo(histogram.upperBounds[i]))

\* bounds 1 and 3; a sample on the first bound, one above the largest bound
\* and a negative one
C23_Witness ==
    /\ histogram.upperBounds = <<1, 3>>
    /\ hsamples = <<1, 4, -2>>
    /\ histogram.boundCounts = <<2, 2>>
    /\ histogram.count = 3

(***************************************************************************)
(* Properties of the metrics (specification SpecMetrics).                  *)
(***************************************************************************)
\* mt after handleMsg has applied msgs to it, in order
RECURSIVE applyAll(_, _)
applyAll(mt, msgs) ==
    IF msgs = <<>> THEN mt ELSE applyAll(update(mt, Head(msgs)), Tail(msgs))

\* mt after the samples the collectors 1..c have brought to aggregator a
RECURSIVE applyCollectors(_, _, _)
applyCollectors(mt, a, c) ==
    IF c = 0 THEN mt ELSE applyAll(applyCollectors(mt, a, c - 1), applied[c][a])

\* aggregator a as it was constructed
Fresh(a) ==
    newMetrics(metrics[a].parentMetrics, metrics[a].timeUnit,
               metrics[a].times[1].upperBounds)

\* no call of handleMsg is under way for collector c, which alone has fed
\* the parent
Settled(c) ==
    /\ collect[c].pc \notin {"handle", "locked"}
    /\ \A o \in Collectors \ {c} : sent[o] = <<>>

SameHistograms(hp, hc) ==
    \A i \in DOMAIN hc : hp[i] = hc[i]

SameCounts(hp, hc) ==
    \A i \in DOMAIN hc :
        hp[i].count = hc[i].count /\ hp[i].underflowCount = hc[i].underflowCount

\* C14 as stated: Metrics rollup. A parent fed only by one child has, after
\* handleMsg returned, counters, gauges and histograms equal to the child's.
C14_RollupAlways ==
    \A c \in Collectors :
        Settled(c)
            => /\ metrics[parentId].counters = metrics[c].counters
               /\ metrics[parentId].gauges = metrics[c].gauges
               /\ SameHistograms(metrics[parentId].times, metrics[c].times)
               /\ SameHistograms(metrics[parentId].sqlTimes, metrics[c].sqlTimes)

\* C14 amended: after handleMsg returned, the parent has been handed the
\* samples of the child, each once, in order and at the same index; a parent
\* fed only by one child has counters, gauges, histogram counts and underflow
\* counts equal to the child's, and histograms equal to the child's if it
\* was constructed with the time unit and upper bounds of the child.
C14_Rollup ==
    \A c \in Collectors :
        /\ collect[c].pc \notin {"handle", "locked"} => applied[c][parentId] = applied[c][c]
        /\ mu[c].writer = noCollector => metrics[c] = applyAll(Fresh(c), applied[c][c])
        /\ mu[parentId].writer = noCollector
            => metrics[parentId] = applyCollectors(Fresh(parentId), parentId, NumCollectors)
        /\ Settled(c)
            => /\ metrics[parentId].counters = metrics[c].counters
               /\ metrics[parentId].gauges = metrics[c].gauges
               /\ SameCounts(metrics[parentId].times, metrics[c].times)
               /\ SameCounts(metrics[parentId].sqlTimes, metrics[c].sqlTimes)
               /\ (/\ metrics[parentId].timeUnit = metrics[c].timeUnit
                   /\ metrics[parentId].times[1].upperBounds = metrics[c].times[1].upperBounds)
                    => /\ SameHistograms(metrics[parentId].times, metrics[c].times)
                       /\ SameHistograms(metrics[parentId].sqlTimes, metrics[c].sqlTimes)

\* a parent with the unit and bounds of its only feeding child, after three
\* samples, two of them durations, one negative: its histograms are those
\* of the child
C14_Witness ==
    /\ Settled(1) /\ Len(applied[1][parentId]) = 3
    /\ metrics[parentId].timeUnit = metrics[1].timeUnit
    /\ metrics[parentId].times[1].upperBounds = metrics[1].times[1].upperBounds
    /\ metrics[parentId].times[timeAuth + 1].count = 1
    /\ metrics[parentId].sqlTimes[sqlTimeCommit + 1].underflowCount = 1
    /\ metrics[parentId].times = metrics[1].times
    /\ metrics[parentId].sqlTimes = metrics[1].sqlTimes
    /\ metrics[parentId].counters = metrics[1].counters

\* C15: Collector close drains. When close() has returned, every sample sent
\* on the channel before has been applied to the aggregator of the collector
\* and to the parent exactly once, in order, the channel is empty and the
\* consumer goroutine has exited.
C15_CloseDrains ==
    \A c \in Collectors :
        closer[c].pc = "returned"
            => /\ collect[c].pc = "done"
               /\ mc[c].msgCh = <<>>
               /\ applied[c][c] = sent[c]
               /\ applied[c][parentId] = sent[c]
               /\ metrics[c] = applyAll(Fresh(c), sent[c])
               /\ mu[parentId].writer = noCollector
                    => metrics[parentId] = applyCollectors(Fresh(parentId), parentId, NumCollectors)

\* close() was called with two samples in the channel and has returned
C15_Witness ==
    /\ closer[1].pc = "returned" /\ closer[1].pending = 2
    /\ Len(sent[1]) = 3
    /\ applied[1][parentId] = sent[1]
    /\ collect[1].pc = "done"

\* the sample the consumer of collector c has taken from the channel and
\* not yet applied to the aggregator of c
InHand(c) ==
    IF collect[c].pc \in {"handle", "locked"} /\ collect[c].at = c
    THEN <<collect[c].msg>> ELSE <<>>

\* C24: Bounded collector channel with a single consumer. At most
\* numMetricCollectorCh samples are pending in the channel of a collector; a
\* send completes only when fewer are pending (a producer at a full channel
\* waits for the consumer to take one) and no sample is dropped: the samples
\* sent are those applied to the aggregator, the one in the hands of the
\* consumer and those pending, in the order they were sent. The aggregator
\* changes only under its write lock, which is taken only when no goroutine
\* holds the lock, and one sample at a time is applied.
C24_BoundedChannel ==
    [][\A c \in Collectors :
        /\ Len(mc'[c].msgCh) <= numMetricCollectorCh
        /\ sent'[c] # sent[c] =>
                /\ Len(mc[c].msgCh) < numMetricCollectorCh
                /\ mc'[c].msgCh = Append(mc[c].msgCh, sent'[c][Len(sent'[c])])
        /\ sent'[c] = applied'[c][c] \o InHand(c)' \o mc'[c].msgCh
        /\ Len(applied'[c][c]) <= Len(applied[c][c]) + 1
        /\ metrics'[c] # metrics[c] =>
                \/ mu[c].writer = c /\ collect[c].pc = "locked"
                \/ /\ mu'[c].writer = c /\ collect'[c].pc = "locked"
                   /\ mu[c].writer = noCollector /\ mu[c].readers = 0]_vars

\* the channel of collector 1 is full again after the consumer took the
\* first sample, which it applies under the lock
C24_Witness ==
    /\ Len(sent[1]) = 3
    /\ Len(mc[1].msgCh) = numMetricCollectorCh
    /\ collect[1].pc = "locked" /\ collect[1].at = 1
    /\ mu[1].writer = 1
    /\ applied[1][1] = <<>>

\* the sum of f(metrics[c]) over the collectors 1..c
RECURSIVE SumChildren(_, _)
SumChildren(f(_), c) ==
    IF c = 0 THEN 0 ELSE f(metrics[c]) + SumChildren(f, c - 1)

AllClosed == \A c \in Collectors : closer[c].pc = "returned"

\* C25: Shared parent under concurrency. With several collectors, each with
\* an aggregator of its own, feeding one parent concurrently, no update of
\* the parent is lost or torn: once all collectors are closed every counter
\* and gauge of the parent is the sum of those of the children and the count
\* of every histogram of the parent is the sum of the counts of the
\* children's; a stats() call holding the read lock of an aggregator sees
\* no sample half-applied: the aggregator is as the samples applied to it
\* so far leave it, and no consumer is between Lock and Unlock on it.
C25_SharedParent ==
    /\ AllClosed =>
            LET p == metrics[parentId]
            IN  /\ \A i \in 1..numCounter :
                        p.counters[i] = SumChildren(LAMBDA m : m.counters[i], NumCollectors)
                /\ \A i \in 1..numGauge :
                        p.gauges[i] = SumChildren(LAMBDA m : m.gauges[i], NumCollectors)
                /\ \A i \in 1..numTime :
                        p.times[i].count = SumChildren(LAMBDA m : m.times[i].count, NumCollectors)
                /\ \A i \in 1..numSQLTime :
                        p.sqlTimes[i].count =
                            SumChildren(LAMBDA m : m.sqlTimes[i].count, NumCollectors)
    /\ statsPc # nilMetrics =>
            /\ metrics[statsPc] = applyCollectors(Fresh(statsPc), statsPc, NumCollectors)
            /\ mu[statsPc].writer = noCollector
            /\ \A c \in Collectors : ~(collect[c].pc = "locked" /\ collect[c].at = statsPc)

\* both collectors have brought a counter sample and a duration to the
\* parent and are closed; a stats() call holds the read lock of the parent
C25_Witness ==
    /\ AllClosed
    /\ Len(sent[1]) >= 1 /\ Len(sent[2]) >= 1
    /\ metrics[1].counters[counterBytesWritten + 1] = 5
    /\ metrics[2].counters[counterBytesWritten + 1] = 5
    /\ metrics[parentId].counters[counterBytesWritten + 1] = 10
    /\ metrics[parentId].times[timeAuth + 1].count = 1
    /\ statsPc = parentId

\* C26: Sample delivery liveness (specification SpecFair). Under fair
\* scheduling every sample sent on the channel of a collector is eventually
\* applied to the aggregator of the collector and to its parent, and a call
\* of close() eventually returns.
C26_Delivery ==
    /\ \A c \in Collectors : \A k \in 1..MaxSamples :
            /\ (Len(sent[c]) >= k) ~> (Len(applied[c][c]) >= k)
            /\ (Len(sent[c]) >= k) ~> (Len(applied[c][parentId]) >= k)
    /\ \A c \in Collectors : (closer[c].pc = "wait") ~> (closer[c].pc = "returned")

\* both collectors have brought their samples to the parent, the second
\* while the first held the lock of the parent, and both are closed
C26_Witness ==
    /\ AllClosed
    /\ Len(sent[1]) = 2 /\ Len(sent[2]) = 1
    /\ applied[1][parentId] = sent[1]
    /\ applied[2][parentId] = sent[2]
    /\ closer[2].pending = 1

(***************************************************************************)
(* Properties of the conversion (specification SpecConvert).               *)
(***************************************************************************)
\* C18: Integer conversion range. For every SQL integer type with range
\* [min, max] convertField returns the error IntegerOutOfRange for an input
\* outside the range (min-1 and max+1 included) and the exact number for an
\* input inside it, be the input a native integer, a value of a named
\* integer type, a pointer to an integer or a decimal string.
C18_IntegerRange ==
    conv.called
        => IF conv.n < minOf(conv.tc) \/ conv.n > maxOf(conv.tc)
           THEN conv.res.err = errIntegerOutOfRange
           ELSE conv.res.err = "nil" /\ conv.res.value = conv.n

\* the string "42" converted to integer gives 42
C18_Witness ==
    /\ conv.called /\ conv.tc = tcInteger
    /\ conv.v = [form |-> "string", val |-> <<"4", "2">>]
    /\ conv.res = [err |-> "nil", value |-> 42]

(***************************************************************************)
(* Properties of the padding of the Reader (specification Spec).           *)
(***************************************************************************)
\* the part at hand is the final part of the final segment
FinalPart == r.cntPart = r.numPart /\ segIdx + 1 = r.mh.noOfSegm

\* a step in which the part at hand is read or skipped
PartHandled == pc = "handle" /\ (r'.readBytes # r.readBytes \/ r'.panicked)

\* C19: Inter-part padding in multi-segment messages. After every part of a
\* legal message that is not the final part of the final segment, the last
\* part of a non-final segment included, the Reader skips exactly
\* pad(bufferLength) = (8 - bufferLength mod 8) mod 8 bytes and goes on to
\* the next part header or segment header (no fault happened).
C19_InterPartPadding ==
    [][(PartHandled /\ ~FinalPart /\ LegalSoFar /\ faults' = 0)
        => /\ lp'.pad = Pad8(r.ph.bufferLength)
           /\ lp'.pad \in 0..7
           /\ pc' \in {"part", "seg"}]_vars

PartDeclined == pc = "handle" /\ lp'.via \in {"skipped", "generic"}

\* C21: Skip policy. A part the handler declines is discarded verbatim
\* (bufferLength bytes skipped, no decoder run, the cache untouched) unless
\* protocol trace is enabled, or its kind is Error or RowsAffected, or a
\* decoder is cached for its kind; a part of kind Error or RowsAffected or
\* of a kind with a cached decoder is decoded into the cached instance of
\* its kind, which is created on first use and kept: the cache gains the
\* kind when it is first decoded and never loses or replaces an entry.
C21_SkipPolicy ==
    [][/\ r.partCache \subseteq r'.partCache
       /\ PartDeclined =>
            LET kind == r.ph.partKind
                mandatory == kind = PkError \/ kind = PkRowsAffected
                isCached == kind \in r.partCache
            IN  /\ ~(r.protTrace \/ mandatory \/ isCached) =>
                        /\ lp'.via = "skipped"
                        /\ lp'.cnt = 0
                        /\ lp'.payload = r.ph.bufferLength
                        /\ r'.partCache = r.partCache
                /\ (mandatory \/ isCached) =>
                        /\ lp'.via = "generic"
                        /\ r'.partCache = r.partCache \cup {kind}
                        /\ lp'.cached = ~isCached
       /\ ~PartDeclined => r'.partCache = r.partCache]_vars

\* without protocol trace a second declined errors part was decoded into
\* the instance cached by the first
C21_Witness ==
    /\ ~r.protTrace
    /\ lp.via = "generic" /\ lp.kind = PkError /\ ~lp.cached
    /\ r.partCache = {PkError}
    /\ call.handled = 2

(***************************************************************************)
(* Properties of a Reader on the bytes of a Writer (specification          *)
(* SpecRoundTrip).                                                         *)
(***************************************************************************)
WrittenWhole == wcall.called /\ wret = nil

\* C27: Writer-to-Reader framing round-trip. Of a message Write has accepted
\* and written, a Reader running IterateParts on the bytes decodes
\* noOfSegm = 1 and the number of parts written, comes to every header at
\* the place it was written, hands the parts to the handler once each in
\* the written order with the written kinds and sizes, never panics (over-
\* read, negative padding) when the parts are declined or read by decoders
\* consuming at most bufferLength bytes, consumes payload and pad(size) of
\* every part, the final part included, and returns from checkError with
\* nil having consumed exactly the bytes written.
C27_RoundTrip ==
    [][LET n == Len(EmittedParts)
       IN  /\ WrittenWhole' =>
                /\ out'[1].varPartLength = WrittenLength'
                /\ TrueLen(WrittenShape') = WrittenLength'
           /\ pc' # "panic"
           /\ pc' # "idle" =>
                /\ r'.mh.noOfSegm = 1
                /\ r'.mh.varPartLength = WrittenLength
                /\ aligned'
           /\ (pc' = "seg" /\ segIdx' = 0) => WrittenAt("sh", r'.dec.pos) # {}
           /\ pc' = "part" => WrittenAt("ph", r'.dec.pos) # {}
           /\ pc' \in {"part", "handle"} =>
                /\ r'.sh.noOfParts = n
                /\ r'.numPart = n
           /\ pc' = "handle" =>
                /\ call'.handled < n
                /\ r'.ph.partKind = EmittedParts[call'.handled + 1].partKind
                /\ r'.ph.bufferLength = EmittedParts[call'.handled + 1].size
           /\ pc = "handle" =>
                /\ call'.handled = call.handled + 1
                /\ lp'.payload = r.ph.bufferLength
                /\ lp'.pad = Pad8(r.ph.bufferLength)
                /\ lp'.last <=> call'.handled = n
           /\ (pc # "idle" /\ pc' = "idle") =>
                /\ call'.completed
                /\ call'.handled = n
                /\ call'.parts = n
                /\ ret' = NoError
                /\ r'.readBytes = WrittenLength
                /\ r'.dec.pos = WrittenLength
                /\ streamOK']_vars

\* the client-info part and parts of 8 and 5 bytes were written and read
\* back by a handler; the decoder of the last part left bytes of it unread,
\* and 3 bytes of padding were skipped after it
C27_Witness ==
    /\ WrittenWhole /\ wcall.inj /\ wcall.given = 2
    /\ pc = "seg" /\ segIdx = 1 /\ hasFn
    /\ call.handled = 3
    /\ lp.via = "read_fn" /\ lp.last /\ lp.cnt < lp.bufferLength
    /\ lp.bufferLength = 5 /\ lp.pad = 3
    /\ r.readBytes = out[1].varPartLength

====
